---- MODULE Spec2Model ----
(***************************************************************************)
(* Model of slang's DriverTracker (source/analysis/DriverTracker.cpp).     *)
(*                                                                         *)
(* The elaborated design the tracker analyses is a fixed, small design:    *)
(*                                                                         *)
(*   interface I;  logic [3:0] x;  modport mp(output .y(x), output nc);    *)
(*   interface J(I.mp p);  modport mq(output .z(p.y));                     *)
(*   interface A;  modport ma(output .a(b));  modport mb(output .b(a));    *)
(*       (two modport ports whose connection expressions name each other)  *)
(*   module m(I p);   always_comb p.x[1:0] = ...;   (procedure PI)         *)
(*   module k(I q);   m mk(q);                                             *)
(*   module top;                                                           *)
(*     uwire [7:0] w;  wire [3:0] n;  wire [3:0] ni = 0;                   *)
(*     logic [3:0] v;  logic [3:0] vi = 0;  C c = new;                     *)
(*     function void F();  v = ...;  endfunction                           *)
(*     I u1(), u2();                                                       *)
(*     k k1(u1);  k k2(u2);     (k1 canonical, k2 non-canonical)           *)
(*     m m2(u2);  m m3(u1);     (non-canonical instances of k1.mk's body)  *)
(*     J j1(u1.mp);  J j2(u2.mp);   (j1 canonical, j2 non-canonical)       *)
(*     I ua[ArraySize]();  n n2(ua);   (module n(I r[ArraySize]); the walk *)
(*                                      of r<selectors>.x is studied apart) *)
(*                                                                         *)
(* The tracker state is the three concurrent maps; every public operation  *)
(* of the tracker is one action.  The analysis flag AllowDupInitialDrivers *)
(* is fixed when the analysis starts, to either value.                     *)
(***************************************************************************)
EXTENDS Integers, Sequences, FiniteSets, Bags, TLC

VARIABLES symbolDrivers, modportPortDrivers, instanceMap, propagating, lastOp, checked,
          submitted, nOps, allowDupInitialDrivers, workers, walk

vars == <<symbolDrivers, modportPortDrivers, instanceMap, propagating, lastOp, checked,
          submitted, nOps, allowDupInitialDrivers, workers, walk>>

\* Number of tracker operations in one run of the analysis.
MaxOps == 3

Null == "null"

-----------------------------------------------------------------------------
(* The elaborated design: value symbols.                                   *)

ValueSymbols ==
    {"w", "n", "ni", "v", "vi", "c", "x1", "x2", "mpy", "mpy2", "mqz", "mnc", "mca", "mcb"}

\* symbol.kind
SymbolKind(s) ==
    CASE s \in {"w", "n", "ni"} -> "Net"
      [] s \in {"v", "vi", "c", "x1", "x2"} -> "Variable"
      [] OTHER -> "ModportPort"

\* symbol.getDeclaredType()->getType().isClass()
IsClass(s) == s = "c"

\* symbol.getInitializer() != nullptr
HasInitializer(s) == s \in {"ni", "vi", "c"}

\* symbol.getType().getSelectableWidth()
SelectableWidth(s) == IF s = "w" THEN 8 ELSE IF s = "c" THEN 1 ELSE 4

\* symbol.as<NetSymbol>().netType.netKind
NetKind(s) == IF s = "w" THEN "UWire" ELSE "Wire"

\* netType->getResolutionFunction() != nullptr
HasResolutionFunction(s) == FALSE

\* symbol.as<VariableSymbol>().lifetime
Lifetime(s) == "Static"

\* symbol.getParentScope()->asSymbol()
ParentScope(s) ==
    CASE s \in {"w", "n", "ni", "v", "vi", "c"} -> "topBody"
      [] s \in {"x1", "mpy", "mnc"} -> "u1Body"
      [] s \in {"x2", "mpy2"} -> "u2Body"
      [] s \in {"mca", "mcb"} -> "aBody"
      [] OTHER -> "jBody"

\* context.manager->hasFlag(AnalysisFlags::AllowDupInitialDrivers)
AllowDupInitialDrivers == allowDupInitialDrivers

-----------------------------------------------------------------------------
(* Expressions, hierarchical references and drivers.                       *)

\* A longest static prefix: a root value expression (NamedValue or
\* HierarchicalValue, the latter carrying its HierarchicalReference) under at
\* most one outer select.
Expr(kind, sym, ref, sel, lo, hi, range) ==
    [kind |-> kind, sym |-> sym, ref |-> ref, sel |-> sel, lo |-> lo, hi |-> hi,
     sourceRange |-> range]

NamedValue(sym, range) == Expr("NamedValue", sym, Null, "None", 0, 0, range)

\* A null Expression pointer.
NoExpr == Expr("NoExpr", Null, Null, "None", 0, 0, Null)

\* expr.kind of the outermost node
ExprKind(e) == IF e.sel = "None" THEN e.kind ELSE e.sel

\* Hierarchical references of the design that go through an interface port.
\*   rpx : p.x   in module m      (path p, x;  target x of u1)
\*   rqx : q.x   joined through k (path q, x;  target x of u1)
\*   rpy : p.y   in interface J   (path p, y;  target mp.y of u1)
IfaceRefs == {"rpx", "rqx", "rpy"}

\* ref.isViaIfacePort()
IsViaIfacePort(ref) == ref \in IfaceRefs

\* ref.target
RefTarget(ref) == IF ref = "rpy" THEN "mpy" ELSE "x1"

\* ref.path[0].symbol (the interface port symbol)
RefPort(ref) == CASE ref = "rpx" -> "m.p" [] ref = "rqx" -> "k.q" [] OTHER -> "j.p"

\* DriverSource derived from the containing symbol by the ValueDriver constructor.
SourceOf(containing) ==
    CASE containing \in {"PA", "PI", "PM"} -> "AlwaysComb"
      [] containing = "PB" -> "AlwaysFF"
      [] containing = "PC" -> "Initial"
      [] containing = "F" -> "Subroutine"
      [] OTHER -> "Other"

\* ValueDriver(kind, lsp, containingSymbol, flags)
ValueDriver(kind, lsp, containing, flags) ==
    [kind |-> kind, prefixExpression |-> lsp, containingSymbol |-> containing,
     flags |-> flags, source |-> SourceOf(containing), isFromSideEffect |-> FALSE,
     procCallExpression |-> Null]

isInputPort(d) == "InputPort" \in d.flags
isUnidirectionalPort(d) == d.flags \cap {"InputPort", "OutputPort"} # {}
isClockVar(d) == "ClockVar" \in d.flags
isInSingleDriverProcedure(d) == d.source \in {"AlwaysComb", "AlwaysFF", "AlwaysLatch"}

\* ValueDriver::getSourceRange
getSourceRange(d) ==
    IF d.procCallExpression # Null THEN d.procCallExpression
    ELSE d.prefixExpression.sourceRange

\* LSPUtilities::getBounds: the static bit interval of an lsp on a symbol.
NoBounds == <<-1, -1>>

getBounds(lsp, typeOf) ==
    IF lsp.sel # "None" /\ lsp.lo < 0 THEN NoBounds
    ELSE IF lsp.sel = "None" THEN <<0, SelectableWidth(typeOf) - 1>> ELSE <<lsp.lo, lsp.hi>>

Overlaps(a, b) == a[1] <= b[2] /\ b[1] <= a[2]

-----------------------------------------------------------------------------
(* Diagnostics.                                                            *)

\* context.addDiag(symbol, code, range) with its argument and first note.
Diag(code, symbol, range, arg, note, noteRange) ==
    [code |-> code, symbol |-> symbol, range |-> range, arg |-> arg, note |-> note,
     noteRange |-> noteRange]

\* The addAssignedHereNote lambda of handleOverlap.
AssignedHereNote(currRange, driverRange) ==
    IF currRange # driverRange THEN <<"NoteAssignedHere", currRange>>
    ELSE <<"NoteFromHere2", "NoLocation">>

\* Variant: the port branch tolerates the overlap on variables too.
PortOverlapTolerated(symbol, curr, driver, isNet) ==
    [ret |-> TRUE,
     diags |-> <<Diag(IF isNet THEN "InputPortCoercion" ELSE "InputPortAssign", symbol,
                      getSourceRange(driver), symbol, "NoteDeclarationHere",
                      getSourceRange(curr))>>]

\* The port branch of handleOverlap.
PortOverlap(symbol, curr, driver, isNet) ==
    LET code == IF isNet
                THEN (IF "InputPort" \in curr.flags THEN "InputPortCoercion"
                      ELSE "OutputPortCoercion")
                ELSE "InputPortAssign"
        swap == isInputPort(driver) \/ "OutputPort" \in curr.flags
        portRange == IF swap THEN getSourceRange(driver) ELSE getSourceRange(curr)
        assignRange == IF swap THEN getSourceRange(curr) ELSE getSourceRange(driver)
        note == IF code = "OutputPortCoercion" THEN "NoteDrivenHere"
                ELSE "NoteDeclarationHere"
    IN  [ret |-> isNet,
         diags |-> <<Diag(code, symbol, assignRange, symbol, note, portRange)>>]

\* Variant: a procedural driver of a clocking variable's target is an error.
ClockVarOverlapStrict(symbol, curr, driver) ==
    IF isClockVar(curr) /\ isClockVar(driver) THEN [ret |-> TRUE, diags |-> <<>>]
    ELSE [ret |-> FALSE,
          diags |-> <<Diag("ClockVarTargetAssign", symbol, getSourceRange(driver), symbol,
                           "NoteReferencedHere", getSourceRange(curr))>>]

\* The clockvar branch of handleOverlap.
ClockVarOverlap(symbol, curr, driver) ==
    IF isClockVar(curr) /\ isClockVar(driver) THEN [ret |-> TRUE, diags |-> <<>>]
    ELSE IF curr.kind = "Procedural" \/ driver.kind = "Procedural"
    THEN [ret |-> TRUE, diags |-> <<>>]
    ELSE LET sw == isClockVar(driver)
             driverRange == IF sw THEN getSourceRange(curr) ELSE getSourceRange(driver)
             currRange == IF sw THEN getSourceRange(driver) ELSE getSourceRange(curr)
         IN  [ret |-> FALSE,
              diags |-> <<Diag("ClockVarTargetAssign", symbol, driverRange, symbol,
                               "NoteReferencedHere", currRange)>>]

\* Variant: the diagnostic always names the procedure of the new driver.
ProceduralOverlapNamesDriver(symbol, curr, driver) ==
    LET note == AssignedHereNote(getSourceRange(curr), getSourceRange(driver))
    IN  [ret |-> FALSE,
         diags |-> <<Diag("MultipleAlwaysAssigns", symbol, getSourceRange(driver),
                          driver.source, note[1], note[2])>>]

\* The both-procedural branch of handleOverlap.
ProceduralOverlap(symbol, curr, driver) ==
    LET single == isInSingleDriverProcedure(driver)
        procKind == IF single THEN driver.source ELSE curr.source
        driverRange == IF single THEN getSourceRange(driver) ELSE getSourceRange(curr)
        currRange == IF single THEN getSourceRange(curr) ELSE getSourceRange(driver)
        note == AssignedHereNote(currRange, driverRange)
    IN  [ret |-> FALSE,
         diags |-> <<Diag("MultipleAlwaysAssigns", symbol, driverRange, procKind,
                          note[1], note[2])>>]

\* The default branch of handleOverlap.
DefaultOverlap(symbol, curr, driver, isUWire, isSingleDriverUDNT) ==
    LET code == IF isUWire THEN "MultipleUWireDrivers"
                ELSE IF isSingleDriverUDNT THEN "MultipleUDNTDrivers"
                ELSE IF driver.kind = "Continuous" /\ curr.kind = "Continuous"
                THEN "MultipleContAssigns"
                ELSE "MixedVarAssigns"
        note == AssignedHereNote(getSourceRange(curr), getSourceRange(driver))
    IN  [ret |-> FALSE,
         diags |-> <<Diag(code, symbol, getSourceRange(driver),
                          IF isSingleDriverUDNT THEN NetKind(symbol) ELSE symbol,
                          note[1], note[2])>>]

\* handleOverlap: the diagnostic for a problematic pair and whether the overlap
\* is tolerated (TRUE: warning, the scan goes on; FALSE: error, the scan stops).
handleOverlap(symbol, curr, driver, isNet, isUWire, isSingleDriverUDNT) ==
    LET isUnidirectionNetPort ==
            isNet /\ (isUnidirectionalPort(curr) \/ isUnidirectionalPort(driver))
    IN  IF (isUnidirectionNetPort /\ ~isUWire /\ ~isSingleDriverUDNT)
           \/ (~isNet /\ (isInputPort(curr) \/ isInputPort(driver)))
        THEN PortOverlap(symbol, curr, driver, isNet)
        ELSE IF isClockVar(curr) \/ isClockVar(driver)
        THEN ClockVarOverlap(symbol, curr, driver)
        ELSE IF curr.kind = "Procedural" /\ driver.kind = "Procedural"
        THEN ProceduralOverlap(symbol, curr, driver)
        ELSE DefaultOverlap(symbol, curr, driver, isUWire, isSingleDriverUDNT)

-----------------------------------------------------------------------------
(* addDriver.                                                              *)

SeqToBag(q) ==
    [e \in {q[i] : i \in DOMAIN q} |-> Cardinality({i \in DOMAIN q : q[i] = e})]

Entry(driver, bounds) == [driver |-> driver, bounds |-> bounds]

\* The tracker's maps as one call sees and leaves them, with the diagnostics the
\* call's AnalysisContext has received and the addDriver calls made so far.
Tracker(sd, mp, im, ck, sub) ==
    [symbolDrivers |-> sd, modportPortDrivers |-> mp, instanceMap |-> im,
     checked |-> ck, submitted |-> sub, diags |-> <<>>, calls |-> <<>>, ret |-> Null]

\* The one value of a call whose argument is worked out once.
Once(results) == CHOOSE r \in results : TRUE

\* concurrent_map::try_emplace_and_visit: the entry exists when the visitor runs.
TryEmplace(map, key, value) ==
    IF key \in DOMAIN map THEN map ELSE map @@ (key :> value)

\* Variant: initial blocks are never ignored.
shouldIgnoreNoFlag(vd) ==
    \/ vd.source = "Subroutine"
    \/ "Initializer" \in vd.flags

\* shouldIgnore lambda of addDriver
shouldIgnore(vd) ==
    \/ vd.source = "Subroutine"
    \/ "Initializer" \in vd.flags
    \/ (vd.source = "Initial" /\ AllowDupInitialDrivers)

\* Variant: uwire nets are not checked for overlap.
checkOverlapNoUWire(symbol, isUWire, isSingleDriverUDNT) ==
    \/ (SymbolKind(symbol) = "Variable" /\ Lifetime(symbol) = "Static")
    \/ isSingleDriverUDNT
    \/ SymbolKind(symbol) = "LocalAssertionVar"

\* Variant: every net is checked for overlap.
checkOverlapAllNets(symbol, isUWire, isSingleDriverUDNT) ==
    \/ (SymbolKind(symbol) = "Variable" /\ Lifetime(symbol) = "Static")
    \/ SymbolKind(symbol) = "Net"
    \/ SymbolKind(symbol) = "LocalAssertionVar"

\* checkOverlap of addDriver
checkOverlap(symbol, isUWire, isSingleDriverUDNT) ==
    \/ (SymbolKind(symbol) = "Variable" /\ Lifetime(symbol) = "Static")
    \/ isUWire
    \/ isSingleDriverUDNT
    \/ SymbolKind(symbol) = "LocalAssertionVar"

\* Variant: procedural drivers of one procedure count as a problem too.
isProblemSameProcedure(symbol, curr, driver, isUWire, isSingleDriverUDNT) ==
    IF isUnidirectionalPort(curr) # isUnidirectionalPort(driver) THEN TRUE
    ELSE IF checkOverlap(symbol, isUWire, isSingleDriverUDNT)
    THEN IF driver.kind = "Continuous" \/ curr.kind = "Continuous" THEN TRUE
         ELSE /\ ~shouldIgnore(curr)
              /\ ~shouldIgnore(driver)
              /\ (isInSingleDriverProcedure(curr) \/ isInSingleDriverProcedure(driver))
    ELSE FALSE

\* The isProblem test of addDriver for one stored driver curr and the new driver.
isProblem(symbol, curr, driver, isUWire, isSingleDriverUDNT) ==
    IF isUnidirectionalPort(curr) # isUnidirectionalPort(driver) THEN TRUE
    ELSE IF checkOverlap(symbol, isUWire, isSingleDriverUDNT)
    THEN IF driver.kind = "Continuous" \/ curr.kind = "Continuous" THEN TRUE
         ELSE /\ curr.containingSymbol # driver.containingSymbol
              /\ ~shouldIgnore(curr)
              /\ ~shouldIgnore(driver)
              /\ (isInSingleDriverProcedure(curr) \/ isInSingleDriverProcedure(driver))
    ELSE FALSE

\* Variant: the scan breaks after any reported overlap, a warning included.
ScanStopsAlways(h) == TRUE

\* Variant: the scan goes on after an error.
ScanNeverStops(h) == FALSE

\* What the scan does once handleOverlap has returned: break on an error.
ScanStops(h) == ~h.ret

\* The overlap loop of addDriver from stored entry i on: the entries whose
\* bounds intersect the new bounds are visited in storage order, each is put to
\* the isProblem test, and the loop breaks when handleOverlap returns false.
\* Yields the diagnostics, the handleOverlap calls and the indices tested, each
\* with whether handleOverlap reported an error for it.
RECURSIVE OverlapScan(_, _, _, _, _)
RECURSIVE AfterOverlap(_, _, _, _, _, _)

\* The outcome for entry i put before the outcome of the rest of the scan.
Prepend(i, h, curr, rest) ==
    [diags |-> h.diags \o rest.diags,
     overlaps |-> <<[curr |-> curr, ret |-> h.ret, diags |-> h.diags]>> \o rest.overlaps,
     tested |-> {<<i, ~h.ret>>} \cup rest.tested]

OverlapScan(symbol, map, driver, bounds, i) ==
    IF i > Len(map) THEN [diags |-> <<>>, overlaps |-> <<>>, tested |-> {}]
    ELSE IF ~Overlaps(map[i].bounds, bounds)
    THEN OverlapScan(symbol, map, driver, bounds, i + 1)
    ELSE
      LET curr == map[i].driver
          isNet == SymbolKind(symbol) = "Net"
          isUWire == isNet /\ NetKind(symbol) = "UWire"
          isSingleDriverUDNT ==
              isNet /\ NetKind(symbol) = "UserDefined" /\ ~HasResolutionFunction(symbol)
      IN  IF isProblem(symbol, curr, driver, isUWire, isSingleDriverUDNT)
          THEN AfterOverlap(symbol, map, driver, bounds, i,
                            handleOverlap(symbol, curr, driver, isNet, isUWire,
                                          isSingleDriverUDNT))
          ELSE [OverlapScan(symbol, map, driver, bounds, i + 1)
                  EXCEPT !.tested = {<<i, FALSE>>} \cup @]

\* The scan after handleOverlap has returned h for stored entry i.
AfterOverlap(symbol, map, driver, bounds, i, h) ==
    IF ScanStops(h)
    THEN [diags |-> h.diags, tested |-> {<<i, ~h.ret>>},
          overlaps |-> <<[curr |-> map[i].driver, ret |-> h.ret, diags |-> h.diags]>>]
    ELSE Prepend(i, h, map[i].driver, OverlapScan(symbol, map, driver, bounds, i + 1))

\* Variant: the pre-scan runs for side-effect drivers too.
IfacePortRefOfAnyDriver(driver) ==
    IF /\ driver.prefixExpression.kind = "HierarchicalValue"
       /\ IsViaIfacePort(driver.prefixExpression.ref)
    THEN driver.prefixExpression.ref
    ELSE Null

\* The interface-port pre-scan of addDriver (visitComponents over the prefix).
IfacePortRefOf(driver) ==
    IF ~driver.isFromSideEffect
       /\ driver.prefixExpression.kind = "HierarchicalValue"
       /\ IsViaIfacePort(driver.prefixExpression.ref)
    THEN driver.prefixExpression.ref
    ELSE Null

\* Variant: the initializer driver is Continuous whatever the symbol kind.
InitializerEntriesContinuous(symbol) ==
    IF HasInitializer(symbol)
       /\ SymbolKind(symbol) \in {"Net", "Variable", "ClassProperty", "Field"}
    THEN <<Entry(ValueDriver("Continuous", NamedValue(symbol, symbol), ParentScope(symbol),
                             {"Initializer"}),
                 <<0, SelectableWidth(symbol) - 1>>)>>
    ELSE <<>>

\* The initializer driver synthesized on the first insertion, or <<>>.
InitializerEntries(symbol) ==
    LET init(kind) ==
            <<Entry(ValueDriver(kind, NamedValue(symbol, symbol), ParentScope(symbol),
                                {"Initializer"}),
                    <<0, SelectableWidth(symbol) - 1>>)>>
    IN  IF ~HasInitializer(symbol) THEN <<>>
        ELSE IF SymbolKind(symbol) = "Net" THEN init("Continuous")
        ELSE IF SymbolKind(symbol) \in {"Variable", "ClassProperty", "Field"}
        THEN init("Procedural")
        ELSE <<>>

\* Variant: a driver whose scan reported an error is not inserted.
InsertUnlessError(map, entry, scan) ==
    IF \E x \in scan.tested : x[2] THEN map ELSE Append(map, entry)

\* The insertion that ends addDriver, whatever the scan reported.
InsertAfterScan(map, entry, scan) == Append(map, entry)

\* One addDriver call appended to the log of the running operation.
Logged(t, symbol, driver, bounds, ret, scan) ==
    [t EXCEPT !.ret = ret,
              !.diags = @ \o scan.diags,
              !.calls = Append(@, [symbol |-> symbol, driver |-> driver,
                                   bounds |-> bounds, ret |-> ret, diags |-> scan.diags,
                                   overlaps |-> scan.overlaps])]

NoScan == [diags |-> <<>>, overlaps |-> <<>>, tested |-> {}]

\* The end of addDriver: the new entry is inserted after the stored entries
\* and after the outcome of the overlap scan has been reported.
Scanned(t, symbol, driver, bounds, result, inits, map1, scan) ==
    Logged([t EXCEPT !.symbolDrivers[symbol] =
                         InsertAfterScan(map1, Entry(driver, bounds), scan),
                     !.checked = @ \cup {[symbol |-> symbol, curr |-> x[1],
                                           new |-> Len(map1) + 1, error |-> x[2]] :
                                          x \in scan.tested},
                     !.submitted[symbol] = @ (+) SeqToBag(inits \o <<Entry(driver, bounds)>>)],
           symbol, driver, bounds, result, scan)

\* addDriver on a symbol of the main map, with the initializer driver (inits)
\* synthesized when the map was empty: an empty map takes the driver as it
\* is, any other map is scanned for overlaps first.
InsertChecked(t, symbol, driver, bounds, result, inits) ==
    Scanned(t, symbol, driver, bounds, result, inits, t.symbolDrivers[symbol] \o inits,
            IF t.symbolDrivers[symbol] \o inits = <<>> THEN NoScan
            ELSE OverlapScan(symbol, t.symbolDrivers[symbol] \o inits, driver, bounds, 1))

\* Variant: a modport port is driven through the main map like any symbol.
addDriverCheckedMainMap(t, symbol, driver, bounds) ==
    InsertChecked(t, symbol, driver, bounds, IfacePortRefOf(driver),
                  IF t.symbolDrivers[symbol] = <<>> THEN InitializerEntries(symbol)
                  ELSE <<>>)

\* addDriver past its class-type test: the interface-port pre-scan, then the
\* modport side table or the main map.
addDriverChecked(tracker, symbol, driver, bounds) ==
    LET result == IfacePortRefOf(driver)
        entry == Entry(driver, bounds)
    IN
    IF SymbolKind(symbol) = "ModportPort"
    THEN Logged([tracker EXCEPT !.modportPortDrivers =
                      [TryEmplace(@, symbol, <<>>) EXCEPT ![symbol] = Append(@, entry)]],
                symbol, driver, bounds, result, NoScan)
    ELSE Once({InsertChecked(t, symbol, driver, bounds, result,
                             IF t.symbolDrivers[symbol] = <<>>
                             THEN InitializerEntries(symbol)
                             ELSE <<>>) : t \in {tracker}})

\* Variant: addDriver without its class-type test.
addDriverNoClassTest(t, symbol, driver, bounds) ==
    addDriverChecked(t, symbol, driver, bounds)

\* DriverTracker::addDriver on the entry of symbol, which its caller has emplaced.
addDriver(t, symbol, driver, bounds) ==
    IF IsClass(symbol) THEN Logged(t, symbol, driver, bounds, Null, NoScan)
    ELSE addDriverChecked(t, symbol, driver, bounds)

-----------------------------------------------------------------------------
(* The instance hierarchy walked by retargetIfacePort.                     *)

\* The number of elements of the interface instance array ua.
ArraySize == 4

\* The elements ua[0], ua[1], ... of the instance array.
ArrayElements ==
    [k \in 1..ArraySize |-> "ua" \o <<"0", "1", "2", "3", "4", "5", "6", "7">>[k]]

ArrayBodies == {ArrayElements[k] \o "Body" : k \in 1..ArraySize}

\* Selectors of a HierarchicalReference path element.
NameSel(name) == [t |-> "name", name |-> name, first |-> 0, second |-> 0]
IndexSel(i) == [t |-> "index", name |-> "", first |-> i, second |-> i]
RangeSel(a, b) == [t |-> "range", name |-> "", first |-> a, second |-> b]

\* ref.path[0].symbol->name
RefPortName(ref) == IF ref = "rqx" THEN "q" ELSE "p"

\* ref.path[1..]
RefSelectors(ref) == IF ref = "rpy" THEN <<NameSel("y")>> ELSE <<NameSel("x")>>

\* base.body.findPort(name)
FindPort(base, name) ==
    CASE base \in {"m2", "m3"} /\ name = "p" -> base \o ".p"
      [] base = "k2" /\ name = "q" -> "k2.q"
      [] base = "j2" /\ name = "p" -> "j2.p"
      [] base = "n2" /\ name = "r" -> "n2.r"
      [] OTHER -> Null

\* InterfacePortSymbol::getConnection: the connected symbol and modport.
GetConnection(port) ==
    CASE port \in {"m2.p", "k2.q"} -> <<"u2", Null>>
      [] port = "m3.p" -> <<"u1", Null>>
      [] port = "j2.p" -> <<"u2", "mp">>
      [] port = "n2.r" -> <<"ua", Null>>
      [] OTHER -> <<Null, Null>>

NodeKind(n) ==
    CASE n \in ValueSymbols -> SymbolKind(n)
      [] n \in {"m2.p", "m3.p", "k2.q", "j2.p", "n2.r"} -> "InterfacePort"
      [] n \in {"u1", "u2"} -> "Instance"
      [] n \in {"u1Body", "u2Body"} -> "InstanceBody"
      [] n = "ua" -> "InstanceArray"
      [] n \in {ArrayElements[k] : k \in 1..ArraySize} -> "Instance"
      [] n \in ArrayBodies -> "InstanceBody"
      [] n \in {b \o ".x" : b \in ArrayBodies} -> "Variable"
      [] n \in {"u1.mp", "u2.mp"} -> "Modport"
      [] OTHER -> "Unknown"

\* InstanceSymbol::body
BodyOf(inst) == inst \o "Body"

\* body.getDefinition().definitionKind
DefinitionKind(body) == "Interface"

\* Scope::find(name)
Find(scope, name) ==
    CASE scope = "u1Body" /\ name = "x" -> "x1"
      [] scope = "u2Body" /\ name = "x" -> "x2"
      [] scope = "u1Body" /\ name = "mp" -> "u1.mp"
      [] scope = "u2Body" /\ name = "mp" -> "u2.mp"
      [] scope = "u1.mp" /\ name = "y" -> "mpy"
      [] scope = "u1.mp" /\ name = "nc" -> "mnc"
      [] scope = "u2.mp" /\ name = "y" -> "mpy2"
      [] scope \in ArrayBodies /\ name = "x" -> scope \o ".x"
      [] OTHER -> Null

\* symbol->getParentScope() of a modport or body
ScopeParent(n) ==
    CASE n = "u1.mp" -> "u1Body" [] n = "u2.mp" -> "u2Body" [] OTHER -> Null

\* Symbol::isScope
IsScope(n) == NodeKind(n) \in {"InstanceBody", "Modport", "GenerateBlockArray",
                               "InstanceArray", "Instance"}

\* InstanceArraySymbol::elements / GenerateBlockArraySymbol::entries
Elements(n) == IF n = "ua" THEN ArrayElements ELSE <<>>

\* SemanticFacts::isAllowedInModport
isAllowedInModport(kind) == kind \in {"Net", "Variable", "Subroutine", "ClockingBlock"}

\* Follow interface ports to what they connect to (the while loop of the walk).
RECURSIVE Deref(_, _)
RECURSIVE Selected(_, _, _, _, _, _)
RECURSIVE RangeSelected(_, _, _, _, _)
RECURSIVE Entered(_, _, _, _, _)
Deref(symbol, modport) ==
    IF symbol # Null /\ NodeKind(symbol) = "InterfacePort"
    THEN Deref(GetConnection(symbol)[1], GetConnection(symbol)[2])
    ELSE <<symbol, modport>>

NoSpan == <<"nospan">>

\* size_t(x). size_t is 64 bits wide; TLC's integers are narrower, so
\* the modulus is scaled down: every size it is compared with is far below it.
SizeModulus == 2^30
SizeT(x) == x % SizeModulus

\* What the walk has in hand: the current symbol and the pending span.
Reached(symbol, span) == [symbol |-> symbol, span |-> span]

\* return nullptr
NotFound == Reached(Null, NoSpan)

\* The process is stopped (a library assertion, or a fault on a wild pointer).
Trapped == Reached("trap", NoSpan)

\* What a build can make of subspan(offset, count) when count is neither
\* dynamic_extent nor at most size() - offset, which the standard leaves
\* undefined: the call is trapped, or a span comes back.
UBOutcomes == {"trap", "empty", "rest", "beyond"}

\* The span of the outcome ub, for offset first of elems; "wild" is what lies
\* in memory past the end of the element array.
UBSpan(ub, elems, first) ==
    CASE ub = "empty" -> <<>>
      [] ub = "rest" -> SubSeq(elems, first + 1, Len(elems))
      [] ub = "beyond" -> Append(SubSeq(elems, first + 1, Len(elems)), "wild")
      [] OTHER -> NoSpan

\* std::span::subspan(offset, count), where the count size_t(-1) is
\* std::dynamic_extent; NoSpan stands for a trapped call.
SubSpan(elems, offset, count, ub) ==
    IF count = SizeT(-1) THEN SubSeq(elems, offset + 1, Len(elems))
    ELSE IF count <= Len(elems) - offset THEN SubSeq(elems, offset + 1, offset + count)
    ELSE UBSpan(ub, elems, offset)

RECURSIVE Walk(_, _, _, _, _)

\* The range selector of path element i applied to the pending span; the walk
\* goes on with the same symbol.
RangeSelected(path, i, symbol, modport, sub) ==
    IF sub = NoSpan THEN Trapped
    ELSE Walk(path, i + 1, symbol, modport, sub)

\* The selector of path element i applied to symbol (or to the pending span).
Selected(path, i, elem, symbol, modport, span) ==
    IF elem.t = "index"
    THEN IF span # NoSpan
         THEN IF elem.first < 0 \/ SizeT(elem.first) >= Len(span) THEN NotFound
              ELSE Walk(path, i + 1, span[SizeT(elem.first) + 1], modport, NoSpan)
         ELSE IF NodeKind(symbol) = "GenerateBlockArray"
         THEN IF elem.first < 0 \/ SizeT(elem.first) >= Len(Elements(symbol)) THEN NotFound
              ELSE Walk(path, i + 1, Elements(symbol)[SizeT(elem.first) + 1], modport, NoSpan)
         ELSE NotFound
    ELSE IF elem.t = "range"
    THEN IF span = NoSpan THEN NotFound
         ELSE IF elem.first < 0 \/ SizeT(elem.second) >= Len(span) THEN NotFound
         ELSE IF SizeT(elem.first) >= Len(span) \/ SizeT(elem.second) >= Len(span)
         THEN NotFound
         ELSE RangeSelected(path, i, symbol, modport,
                            SubSpan(span, SizeT(elem.first),
                                    SizeT(SizeT(elem.second - elem.first) + 1), walk.ub))
    ELSE IF Find(symbol, elem.name) = Null /\ NodeKind(symbol) = "Modport"
    THEN IF Find(ScopeParent(symbol), elem.name) = Null
            \/ isAllowedInModport(NodeKind(Find(ScopeParent(symbol), elem.name)))
            \/ NodeKind(Find(ScopeParent(symbol), elem.name)) = "Modport"
         THEN NotFound
         ELSE Walk(path, i + 1, Find(ScopeParent(symbol), elem.name), modport, NoSpan)
    ELSE Walk(path, i + 1, Find(symbol, elem.name), modport, NoSpan)

\* Path element i once interface ports have been followed to symbol: an
\* instance is entered (through the pending modport if there is one), an
\* instance array opens a span, anything else must be a scope.
Entered(path, i, symbol, modport, span) ==
    IF symbol = Null THEN NotFound
    ELSE IF symbol \in {"trap", "wild"} THEN Trapped
    ELSE IF span # NoSpan THEN Selected(path, i, path[i], symbol, modport, span)
    ELSE IF NodeKind(symbol) = "Instance"
    THEN IF DefinitionKind(BodyOf(symbol)) = "Module" THEN NotFound
         ELSE Selected(path, i, path[i],
                       IF modport # Null THEN Find(BodyOf(symbol), modport)
                       ELSE BodyOf(symbol),
                       Null, NoSpan)
    ELSE IF NodeKind(symbol) = "InstanceArray"
    THEN Selected(path, i, path[i], symbol, modport, Elements(symbol))
    ELSE IF ~IsScope(symbol) THEN NotFound
    ELSE Selected(path, i, path[i], symbol, modport, NoSpan)

\* The path walk of retargetIfacePort from element i on, with the current
\* symbol, the pending modport and the pending instance-array span.
Walk(path, i, symbol, modport, span) ==
    IF i > Len(path) THEN Reached(symbol, span)
    ELSE Entered(path, i, Deref(symbol, modport)[1], Deref(symbol, modport)[2], span)

\* The walk of the selectors path[1..] from the port of the base instance.
retargetPath(selectors, port) ==
    IF port = Null THEN NotFound ELSE Walk(selectors, 1, port, Null, NoSpan)

\* retargetIfacePort: the symbol in instance base that the reference reaches.
retargetIfacePort(ref, base) ==
    IF ~IsViaIfacePort(ref) \/ RefTarget(ref) = Null THEN Null
    ELSE retargetPath(RefSelectors(ref), FindPort(base, RefPortName(ref))).symbol

-----------------------------------------------------------------------------
(* The instance side-effect graph.                                         *)

NonCanonicalInstances == {"k2", "m2", "m3", "j2"}

\* instance.getCanonicalBody()
CanonicalBody(instance) ==
    CASE instance \in {"m2", "m3"} -> "mBody"
      [] instance = "k2" -> "kBody"
      [] OTHER -> "jBody"

\* The InstanceBody that owns the interface port ref.path[0].symbol.
PortBody(port) ==
    CASE port = "m.p" -> "mBody" [] port = "k.q" -> "kBody" [] OTHER -> "jBody"

\* port.getConnectionAndExpr(): the hierarchical reference of an ArbitrarySymbol
\* connection expression, or Null. In the canonical body of m (k1.mk) the port p
\* is connected to the interface port q of k.
PortConnectionRef(port) == IF port = "m.p" THEN "rq" ELSE Null

\* connRef.isViaIfacePort() for the reference of a connection expression
ConnRefIsViaIfacePort(connRef) == connRef = "rq"

\* connRef.join(alloc, ref)
JoinRef(connRef, ref) == "rqx"

EmptyInstanceState == [nonCanonicalInstances |-> <<>>, ifacePortDrivers |-> <<>>]

\* The clone applyInstanceSideEffect makes of the driver.
SideEffectClone(driver, instance) ==
    [driver EXCEPT !.containingSymbol = instance, !.isFromSideEffect = TRUE]

\* The body of applyInstanceSideEffect once the reference has been retargeted.
ApplyToTarget(t, driver, target) ==
    IF target = Null \/ getBounds(driver.prefixExpression, target) = NoBounds THEN t
    ELSE addDriver([t EXCEPT !.symbolDrivers = TryEmplace(@, target, <<>>)],
                   target, driver, getBounds(driver.prefixExpression, target))

\* DriverTracker::applyInstanceSideEffect
applyInstanceSideEffect(t, ifacePortDriver, instance) ==
    ApplyToTarget(t, SideEffectClone(ifacePortDriver.driver, instance),
                  retargetIfacePort(ifacePortDriver.ref, instance))

\* for (auto& d : ifacePortDrivers) applyInstanceSideEffect(d, instance)
RECURSIVE ReplayDrivers(_, _, _, _)
ReplayDrivers(t, ifacePortDrivers, i, instance) ==
    IF i > Len(ifacePortDrivers) THEN t
    ELSE ReplayDrivers(applyInstanceSideEffect(t, ifacePortDrivers[i], instance),
                       ifacePortDrivers, i + 1, instance)

\* for (auto inst : nonCanonicalInstances) applyInstanceSideEffect(d, *inst)
RECURSIVE ReplayInstances(_, _, _, _)
ReplayInstances(t, ifacePortDriver, instances, i) ==
    IF i > Len(instances) THEN t
    ELSE ReplayInstances(applyInstanceSideEffect(t, ifacePortDriver, instances[i]),
                         ifacePortDriver, instances, i + 1)

\* The snapshots the visitors of instanceMap copy out.
getIfacePortDrivers(im, body) ==
    IF body \in DOMAIN im THEN im[body].ifacePortDrivers ELSE <<>>

getNonCanonicalInstances(im, body) ==
    IF body \in DOMAIN im THEN im[body].nonCanonicalInstances ELSE <<>>

\* Variant: the instance is registered, the recorded drivers are not replayed.
noteNonCanonicalInstanceNoReplay(t, instance) ==
    [t EXCEPT !.instanceMap =
        [TryEmplace(@, CanonicalBody(instance), EmptyInstanceState)
           EXCEPT ![CanonicalBody(instance)].nonCanonicalInstances = Append(@, instance)]]

\* DriverTracker::noteNonCanonicalInstance
noteNonCanonicalInstance(tracker, instance) ==
    LET canonical == CanonicalBody(instance)
    IN  Once({ReplayDrivers([t EXCEPT !.instanceMap =
                                [TryEmplace(@, canonical, EmptyInstanceState)
                                   EXCEPT ![canonical].nonCanonicalInstances =
                                              Append(@, instance)]],
                            getIfacePortDrivers(t.instanceMap, canonical), 1, instance) :
              t \in {tracker}})

\* DriverTracker::noteInterfacePortDriver
RECURSIVE noteInterfacePortDriver(_, _, _)
RECURSIVE FollowConnection(_, _, _, _)
noteInterfacePortDriver(tracker, ref, driver) ==
    LET port == RefPort(ref)
        body == PortBody(port)
        ifacePortDriver == [ref |-> ref, driver |-> driver]
    IN  FollowConnection(
            Once({ReplayInstances([t EXCEPT !.instanceMap =
                                      [TryEmplace(@, body, EmptyInstanceState)
                                         EXCEPT ![body].ifacePortDrivers =
                                                    Append(@, ifacePortDriver)]],
                                  ifacePortDriver,
                                  getNonCanonicalInstances(t.instanceMap, body), 1) :
                  t \in {tracker}}),
            PortConnectionRef(port), ref, driver)

\* The end of noteInterfacePortDriver: a port that is itself connected through
\* an interface port passes the driver on to the parent connection.
FollowConnection(t1, connRef, ref, driver) ==
    IF connRef # Null /\ ConnRefIsViaIfacePort(connRef)
    THEN noteInterfacePortDriver(t1, JoinRef(connRef, ref), driver)
    ELSE t1

\* for (auto& [ref, driver] : ifacePortRefs) noteInterfacePortDriver(ref, driver)
RECURSIVE NoteAll(_, _, _)
NoteAll(t, ifacePortRefs, i) ==
    IF i > Len(ifacePortRefs) THEN t
    ELSE NoteAll(noteInterfacePortDriver(t, ifacePortRefs[i].ret, ifacePortRefs[i].driver),
                 ifacePortRefs, i + 1)

-----------------------------------------------------------------------------
(* The public operations.                                                  *)

\* The addDriver calls of the running operation that returned a reference
\* (ifacePortRefs.emplace_back(ref, driver)).
IfacePortRefs(t) == SelectSeq(t.calls, LAMBDA c : c.ret # Null)

\* for (auto& [driver, bounds] : drivers) addDriver(...)
RECURSIVE AddEach(_, _, _, _)
AddEach(t, symbol, drivers, i) ==
    IF i > Len(drivers) THEN t
    ELSE AddEach(addDriver(t, symbol, drivers[i].driver, drivers[i].bounds),
                 symbol, drivers, i + 1)

\* for (auto& [valueSym, drivers] : list) symbolDrivers.try_emplace_and_visit(...)
RECURSIVE AddLists(_, _, _)
AddLists(t, list, i) ==
    IF i > Len(list) THEN t
    ELSE AddLists(AddEach([t EXCEPT !.symbolDrivers = TryEmplace(@, list[i].symbol, <<>>)],
                          list[i].symbol, list[i].drivers, 1),
                  list, i + 1)

\* The second loop of add(procedure), over the collected ifacePortRefs.
NoteRefs(tracker) == Once({NoteAll(t1, IfacePortRefs(t1), 1) : t1 \in {tracker}})

\* DriverTracker::add(context, driverAlloc, procedure)
addProcedure(t, drivers) == NoteRefs(AddLists(t, drivers, 1))

\* DriverTracker::add(context, driverAlloc, symbolDriverList)
addSymbolDriverList(t, symbolDriverList) == AddLists(t, symbolDriverList, 1)

\* The second loop of addDrivers: the one driver it made, if addDriver returned
\* a reference for it.
NoteRef(tracker, driver) ==
    Once({IF t1.ret # Null THEN noteInterfacePortDriver(t1, t1.ret, driver) ELSE t1 :
          t1 \in {tracker}})

\* DriverTracker::addDrivers; visitLSPs reports the value symbol the expression
\* drives with its longest static prefix, built on initialLSP when there is one.
addDrivers(t, expr, driverKind, driverFlags, containingSymbol, initialLSP) ==
    LET symbol == expr.sym
        lsp == IF initialLSP # NoExpr THEN initialLSP ELSE expr
        bounds == getBounds(lsp, symbol)
        driver == ValueDriver(driverKind, lsp, containingSymbol, driverFlags)
    IN  IF bounds = NoBounds THEN t
        ELSE NoteRef(addDriver([t EXCEPT !.symbolDrivers = TryEmplace(@, symbol, <<>>)],
                               symbol, driver, bounds), driver)

\* DriverTracker::add(context, driverAlloc, connection, containingSymbol)
addPortConnection(t, connection, containingSymbol) ==
    LET expr == connection.expr
        flags == IF connection.direction = "Out" THEN {"OutputPort"} ELSE {}
        lhs == IF expr.kind = "Assignment" THEN connection.left ELSE expr
    IN  IF expr = NoExpr \/ connection.bad \/ connection.portKind = "InterfacePort" THEN t
        ELSE IF connection.direction = "In" THEN t
        ELSE addDrivers(t, lhs, "Continuous", flags, containingSymbol, NoExpr)

\* DriverTracker::add(context, driverAlloc, portSymbol)
addPortSymbol(t, symbol) ==
    LET flags == IF symbol.direction = "In" THEN {"InputPort"} ELSE {}
    IN  IF symbol.direction \notin {"In", "InOut"} THEN t
        ELSE IF symbol.internalExpr # NoExpr
        THEN addDrivers(t, symbol.internalExpr, "Continuous", flags, symbol.scope, NoExpr)
        ELSE IF symbol.internalSymbol # Null
        THEN addDrivers(t, NamedValue(symbol.internalSymbol, symbol.internalSymbol),
                        "Continuous", flags, symbol.scope, NoExpr)
        ELSE t

\* DriverTracker::add(context, driverAlloc, clockVarSymbol)
addClockVar(t, symbol) ==
    IF symbol.direction = "In" THEN t
    ELSE IF symbol.initializer # NoExpr
    THEN addDrivers(t, symbol.initializer, "Continuous", {"ClockVar"}, symbol.scope, NoExpr)
    ELSE t

\* DriverTracker::add(context, driverAlloc, expr, containingSymbol)
addExpression(t, expr, containingSymbol) ==
    addDrivers(t, expr, "Continuous", {}, containingSymbol, NoExpr)

\* DriverTracker::getDrivers
getDrivers(sd, symbol) ==
    IF symbol \in DOMAIN sd THEN sd[symbol] ELSE <<>>

-----------------------------------------------------------------------------
(* Modport propagation.                                                    *)

\* ModportPortSymbol::getConnectionExpr
ConnectionExpr(port) ==
    CASE port = "mpy" -> NamedValue("x1", "conn_y")
      [] port = "mpy2" -> NamedValue("x2", "conn_y")
      [] port = "mqz" -> Expr("HierarchicalValue", "mpy", "rpy", "None", 0, 0, "conn_z")
      [] port = "mca" -> NamedValue("mcb", "conn_a")
      [] port = "mcb" -> NamedValue("mca", "conn_b")
      [] OTHER -> NoExpr

\* Variant: the original prefix expression is re-submitted as it is.
UnsplicedLSP(connectionExpr, prefixExpression) ==
    IF ExprKind(prefixExpression) \in {"ElementSelect", "RangeSelect", "MemberAccess"}
    THEN prefixExpression
    ELSE NoExpr

\* The select glued onto the connection expression, or NoExpr.
SplicedLSP(connectionExpr, prefixExpression) ==
    IF ExprKind(prefixExpression) \in {"ElementSelect", "RangeSelect", "MemberAccess"}
    THEN [connectionExpr EXCEPT !.sel = prefixExpression.sel,
                                !.lo = prefixExpression.lo,
                                !.hi = prefixExpression.hi,
                                !.sourceRange = prefixExpression.sourceRange]
    ELSE NoExpr

\* Variant: the re-submitted driver is always Continuous.
propagateModportDriverContinuous(t, connectionExpr, originalDriver) ==
    addDrivers(t, connectionExpr, "Continuous", originalDriver.flags,
               originalDriver.containingSymbol,
               SplicedLSP(connectionExpr, originalDriver.prefixExpression))

\* DriverTracker::propagateModportDriver
propagateModportDriver(t, connectionExpr, originalDriver) ==
    addDrivers(t, connectionExpr, originalDriver.kind, originalDriver.flags,
               originalDriver.containingSymbol,
               SplicedLSP(connectionExpr, originalDriver.prefixExpression))

\* for (auto& [originalDriver, _] : item.second) propagateModportDriver(...)
RECURSIVE PropagateEntry(_, _, _, _)
PropagateEntry(t, expr, drivers, i) ==
    IF i > Len(drivers) THEN t
    ELSE PropagateEntry(propagateModportDriver(t, expr, drivers[i].driver),
                        expr, drivers, i + 1)

\* localCopy.cvisit_all(...) visiting the entries in the given order
RECURSIVE PropagateAll(_, _, _, _)
PropagateAll(t, localCopy, order, i) ==
    IF i > Len(order) THEN t
    ELSE LET expr == ConnectionExpr(order[i])
         IN  PropagateAll(IF expr # NoExpr
                          THEN PropagateEntry(t, expr, localCopy[order[i]], 1)
                          ELSE t,
                          localCopy, order, i + 1)

\* The orders in which an unordered map may be visited.
VisitOrders(keys) ==
    {q \in [1..Cardinality(keys) -> keys] : \A i, j \in DOMAIN q : q[i] = q[j] => i = j}

-----------------------------------------------------------------------------
(* The inputs of the analysis: what the design hands to the tracker.       *)

Select(kind, sym, ref, sel, lo, hi, range) == Expr(kind, sym, ref, sel, lo, hi, range)

ProcDriver(containing, lsp) ==
    Entry(ValueDriver("Procedural", lsp, containing, {}), getBounds(lsp, lsp.sym))

\* AnalyzedProcedure::getDrivers() of the procedures of the design.
\*   PA: always_comb in top     v[1:0] = ...; c = ...;
\*   PB: always_ff in top       v[2:1] <= ...; vi <= ...;
\*   PC: initial in top         v = ...;
\*   PI: always_comb in m       p.x[1:0] = ...;
\*   PM: always_comb in a user of J's modport   mq.z[1:0] = ...; mp.nc = ...;
Procedures == {"PA", "PB", "PC", "PI", "PM"}

ProcedureDrivers(p) ==
    CASE p = "PA" ->
           <<[symbol |-> "v",
              drivers |-> <<ProcDriver("PA", Select("NamedValue", "v", Null,
                                                    "RangeSelect", 0, 1, "PA:v"))>>],
             [symbol |-> "c",
              drivers |-> <<ProcDriver("PA", NamedValue("c", "PA:c"))>>]>>
      [] p = "PB" ->
           <<[symbol |-> "v",
              drivers |-> <<ProcDriver("PB", Select("NamedValue", "v", Null,
                                                    "RangeSelect", 1, 2, "PB:v"))>>],
             [symbol |-> "vi",
              drivers |-> <<ProcDriver("PB", NamedValue("vi", "PB:vi"))>>]>>
      [] p = "PC" ->
           <<[symbol |-> "v",
              drivers |-> <<ProcDriver("PC", NamedValue("v", "PC:v"))>>]>>
      [] p = "PI" ->
           <<[symbol |-> "x1",
              drivers |-> <<ProcDriver("PI", Select("HierarchicalValue", "x1", "rpx",
                                                    "RangeSelect", 0, 1, "PI:x"))>>]>>
      [] OTHER ->
           <<[symbol |-> "mqz",
              drivers |-> <<ProcDriver("PM", Select("NamedValue", "mqz", Null,
                                                    "RangeSelect", 0, 1, "PM:z"))>>],
             [symbol |-> "mnc",
              drivers |-> <<ProcDriver("PM", NamedValue("mnc", "PM:nc"))>>]>>

\* Port connections of the design (PortConnection and its containing symbol).
Connection(portKind, direction, expr, left, bad) ==
    [portKind |-> portKind, direction |-> direction, expr |-> expr, left |-> left,
     bad |-> bad]

AssignmentExpr == Expr("Assignment", Null, Null, "None", 0, 0, "conn_assign")

PortConnections ==
    {Connection("Port", "Out", NamedValue("n", "co"), NoExpr, FALSE),
     Connection("Port", "In", NamedValue("n", "ci"), NoExpr, FALSE),
     Connection("InterfacePort", "InOut", NamedValue("x1", "cif"), NoExpr, FALSE),
     Connection("MultiPort", "InOut", AssignmentExpr,
                Select("NamedValue", "w", Null, "RangeSelect", 4, 7, "cio"), FALSE),
     Connection("Port", "Out", NamedValue("v", "cbad"), NoExpr, TRUE)}

\* Port symbols of the design.
PortSym(direction, internalExpr, internalSymbol) ==
    [direction |-> direction, internalExpr |-> internalExpr,
     internalSymbol |-> internalSymbol, scope |-> "topBody"]

PortSymbols ==
    {PortSym("In", NoExpr, "v"),
     PortSym("In", Select("NamedValue", "n", Null, "RangeSelect", 0, 1, "pin_n"), Null),
     PortSym("Out", NoExpr, "n"),
     PortSym("InOut", NoExpr, "w")}

\* Clocking block variables of the design.
ClockVars ==
    {[direction |-> "Out", initializer |-> NamedValue("v", "cvo"), scope |-> "cb"],
     [direction |-> "In", initializer |-> NamedValue("v", "cvi"), scope |-> "cb"],
     [direction |-> "Out", initializer |-> NoExpr, scope |-> "cb"],
     [direction |-> "Out",
      initializer |-> Select("NamedValue", "w", Null, "RangeSelect", 0, 3, "cvw"),
      scope |-> "cb"]}

\* Continuous assignments of the design: the left-hand side and its container.
Assignments ==
    {<<Select("NamedValue", "w", Null, "RangeSelect", 0, 3, "a1"), "topBody">>,
     <<Select("NamedValue", "w", Null, "RangeSelect", 3, 7, "a2"), "topBody">>,
     <<Select("NamedValue", "w", Null, "ElementSelect", -1, -1, "a3"), "topBody">>,
     <<NamedValue("n", "a4"), "topBody">>,
     <<NamedValue("ni", "a5"), "topBody">>,
     <<NamedValue("c", "a6"), "topBody">>,
     <<Select("NamedValue", "v", Null, "RangeSelect", 2, 3, "a7"), "topBody">>,
     <<Select("NamedValue", "mpy", Null, "MemberAccess", 2, 3, "a8"), "topBody">>,
     <<Expr("HierarchicalValue", "x1", "rpx", "None", 0, 0, "a9"), "mBody">>,
     <<NamedValue("vi", "a10"), "topBody">>}

\* Pre-built driver lists handed to add(symbolDriverList).
SymbolDriverLists ==
    {<<[symbol |-> "v",
        drivers |-> <<ProcDriver("PB", Select("NamedValue", "v", Null,
                                              "RangeSelect", 1, 2, "PB:v"))>>]>>,
     <<[symbol |-> "c", drivers |-> <<ProcDriver("PA", NamedValue("c", "PA:c"))>>],
       [symbol |-> "v", drivers |-> <<ProcDriver("F", NamedValue("v", "F:v"))>>]>>}

-----------------------------------------------------------------------------
(* The state machine.                                                      *)

\* The diagnostic codes of a sequence of diagnostics.
Codes(diags) == [i \in DOMAIN diags |-> diags[i].code]

\* What is remembered of the operation before the last one.
Summary(o) == [op |-> o.op, arg |-> o.arg, codes |-> Codes(o.diags)]

NoSummary == [op |-> "none", arg |-> Null, codes |-> <<>>]

Op(op, arg, t, result, prev) ==
    [op |-> op, arg |-> arg, calls |-> t.calls, diags |-> t.diags, result |-> result,
     prev |-> prev]

Start == Tracker(symbolDrivers, modportPortDrivers, instanceMap, checked, submitted)

Commit(t, op, arg) ==
    /\ symbolDrivers' = t.symbolDrivers
    /\ modportPortDrivers' = t.modportPortDrivers
    /\ instanceMap' = t.instanceMap
    /\ checked' = t.checked
    /\ submitted' = t.submitted
    /\ lastOp' = Op(op, arg, t, <<>>, Summary(lastOp))
    /\ nOps' = nOps + 1
    /\ UNCHANGED <<propagating, allowDupInitialDrivers, workers, walk>>

\* Variant: one pass over the swapped-out copy, then return.
OnePass(t) == FALSE

\* while (true): after a pass over the swapped-out copy the loop goes round
\* again; only an empty copy ends it.
LoopsAgain(t) == TRUE

CommitPass(t) ==
    /\ symbolDrivers' = t.symbolDrivers
    /\ modportPortDrivers' = t.modportPortDrivers
    /\ instanceMap' = t.instanceMap
    /\ checked' = t.checked
    /\ submitted' = t.submitted
    /\ propagating' = LoopsAgain(t)
    /\ lastOp' = Op(IF LoopsAgain(t) THEN "propagatePass" ELSE "propagateModportDrivers",
                    Null, t, modportPortDrivers, Summary(lastOp))
    /\ UNCHANGED <<nOps, allowDupInitialDrivers, workers, walk>>

CanStart == ~propagating /\ nOps < MaxOps

\* No path walk is under study.
NoWalk == [path |-> <<>>, ub |-> Null, done |-> 0, result |-> NotFound]

Init ==
    /\ symbolDrivers = <<>>
    /\ modportPortDrivers = <<>>
    /\ instanceMap = <<>>
    /\ propagating = FALSE
    /\ checked = {}
    /\ submitted = [s \in ValueSymbols |-> EmptyBag]
    /\ nOps = 0
    /\ allowDupInitialDrivers \in BOOLEAN
    /\ lastOp = Op("init", Null, Start, <<>>, NoSummary)
    /\ workers = <<>>
    /\ walk = NoWalk

AddProcedure ==
    /\ CanStart
    /\ \E p \in Procedures :
          \E t \in {addProcedure(Start, ProcedureDrivers(p))} : Commit(t, "addProcedure", p)

AddPortConnection ==
    /\ CanStart
    /\ \E c \in PortConnections :
          \E t \in {addPortConnection(Start, c, "topBody")} :
              Commit(t, "addPortConnection", Null)

AddPortSymbol ==
    /\ CanStart
    /\ \E ps \in PortSymbols :
          \E t \in {addPortSymbol(Start, ps)} : Commit(t, "addPortSymbol", Null)

AddClockVar ==
    /\ CanStart
    /\ \E cv \in ClockVars :
          \E t \in {addClockVar(Start, cv)} : Commit(t, "addClockVar", Null)

AddExpression ==
    /\ CanStart
    /\ \E a \in Assignments :
          \E t \in {addExpression(Start, a[1], a[2])} : Commit(t, "addExpression", Null)

AddSymbolDriverList ==
    /\ CanStart
    /\ \E l \in SymbolDriverLists :
          \E t \in {addSymbolDriverList(Start, l)} : Commit(t, "addSymbolDriverList", Null)

NoteNonCanonicalInstance ==
    /\ CanStart
    /\ \E inst \in NonCanonicalInstances :
          \E t \in {noteNonCanonicalInstance(Start, inst)} :
              Commit(t, "noteNonCanonicalInstance", inst)

GetDrivers ==
    /\ CanStart
    /\ \E s \in ValueSymbols :
          /\ lastOp' = Op("getDrivers", s, Start, getDrivers(symbolDrivers, s),
                          Summary(lastOp))
          /\ nOps' = nOps + 1
          /\ UNCHANGED <<symbolDrivers, modportPortDrivers, instanceMap, propagating,
                         checked, submitted, allowDupInitialDrivers, workers, walk>>

\* propagateModportDrivers is entered; no other operation runs until it returns.
PropagateBegin ==
    /\ CanStart
    /\ propagating' = TRUE
    /\ lastOp' = Op("propagateBegin", Null, Start, <<>>, Summary(lastOp))
    /\ nOps' = nOps + 1
    /\ UNCHANGED <<symbolDrivers, modportPortDrivers, instanceMap, checked, submitted,
                   allowDupInitialDrivers, workers, walk>>

\* One iteration of the while loop that finds drivers to propagate.
PropagatePass ==
    /\ propagating
    /\ DOMAIN modportPortDrivers # {}
    /\ \E order \in VisitOrders(DOMAIN modportPortDrivers) :
          \E t \in {PropagateAll([Start EXCEPT !.modportPortDrivers = <<>>],
                                 modportPortDrivers, order, 1)} : CommitPass(t)

\* The iteration that finds the swapped-out copy empty: the loop breaks and
\* propagateModportDrivers returns.
PropagateReturn ==
    /\ propagating
    /\ DOMAIN modportPortDrivers = {}
    /\ propagating' = FALSE
    /\ modportPortDrivers' = <<>>
    /\ lastOp' = Op("propagateModportDrivers", Null, Start, <<>>, Summary(lastOp))
    /\ UNCHANGED <<symbolDrivers, instanceMap, checked, submitted, nOps,
                   allowDupInitialDrivers, workers, walk>>

Next ==
    \/ AddProcedure
    \/ AddPortConnection
    \/ AddPortSymbol
    \/ AddClockVar
    \/ AddExpression
    \/ AddSymbolDriverList
    \/ NoteNonCanonicalInstance
    \/ GetDrivers
    \/ PropagateBegin
    \/ PropagatePass
    \/ PropagateReturn

Spec == Init /\ [][Next]_vars

\* Continuous assignments of the design to modport ports.
ModportAssignments ==
    {a \in Assignments : SymbolKind(a[1].sym) = "ModportPort"}
        \cup {<<NamedValue("mca", "a12"), "aBody">>,
              <<Select("NamedValue", "mqz", Null, "RangeSelect", 0, 1, "a13"), "topBody">>}

AddModportExpression ==
    /\ CanStart
    /\ \E a \in ModportAssignments :
          \E t \in {addExpression(Start, a[1], a[2])} : Commit(t, "addExpression", Null)

\* The analysis of the modport side of the design: drivers are recorded
\* against modport ports, then propagateModportDrivers runs; the thread that
\* is inside the loop keeps running.
PropagationNext ==
    \/ AddModportExpression
    \/ PropagateBegin
    \/ PropagatePass
    \/ PropagateReturn

PropagationSpec ==
    /\ Init
    /\ [][PropagationNext]_vars
    /\ WF_vars(PropagatePass)
    /\ WF_vars(PropagateReturn)

-----------------------------------------------------------------------------
(* retargetIfacePort on references into the instance array: module n has   *)
(* the interface array port r, and its non-canonical instance n2 connects  *)
(* r to the array ua.  The reference is r<selectors>.x.                     *)

\* ref.path[1..]: r[i].x, r[a:b][i].x and r[a:b][c:d][i].x, the bounds of the
\* selectors running from below the array to past its end.
WalkPaths ==
    LET values == -1 .. ArraySize
        ranges == {RangeSel(first, second) : first, second \in values}
        indexes == {IndexSel(index) : index \in values}
    IN  {<<index, NameSel("x")>> : index \in indexes}
          \cup {<<range, index, NameSel("x")>> : range \in ranges, index \in indexes}
          \cup {<<range, inner, index, NameSel("x")>> :
                   range \in ranges, inner \in ranges, index \in indexes}

\* The walk before its first loop iteration: symbol is the port of the base.
RetargetInit ==
    /\ symbolDrivers = <<>>
    /\ modportPortDrivers = <<>>
    /\ instanceMap = <<>>
    /\ propagating = FALSE
    /\ checked = {}
    /\ submitted = [s \in ValueSymbols |-> EmptyBag]
    /\ nOps = 0
    /\ allowDupInitialDrivers = FALSE
    /\ lastOp = Op("init", Null, Start, <<>>, NoSummary)
    /\ workers = <<>>
    /\ walk \in {[path |-> path, ub |-> ub, done |-> 0,
                  result |-> retargetPath(<<>>, FindPort("n2", "r"))] :
                 path \in WalkPaths, ub \in UBOutcomes}

\* One more iteration of the loop over ref.path: the walk of the path up to
\* and including its next element.
RetargetStep ==
    /\ walk.done < Len(walk.path)
    /\ walk' = [walk EXCEPT !.done = @ + 1,
                            !.result = retargetPath(SubSeq(walk.path, 1, walk.done + 1),
                                                    FindPort("n2", "r"))]
    /\ UNCHANGED <<symbolDrivers, modportPortDrivers, instanceMap, propagating, lastOp,
                   checked, submitted, nOps, allowDupInitialDrivers, workers>>

RetargetNext == RetargetStep

RetargetSpec == RetargetInit /\ [][RetargetNext]_vars

-----------------------------------------------------------------------------
(* The tracker under concurrent callers.  Each worker thread runs one       *)
(* public operation; the operations interleave at the calls of              *)
(* try_emplace_and_visit, whose callback runs under the entry's lock.       *)

Workers == {"w1", "w2"}

\* The operations the workers run: continuous assignments, a procedure whose
\* driver goes through an interface port, and non-canonical instances.
ConcAssignments ==
    {a \in Assignments : a[1].sourceRange \in {"a1", "a2", "a7", "a8", "a9", "a10"}}
        \cup {<<Select("NamedValue", "v", Null, "RangeSelect", 3, 3, "a11"), "topBody">>}

Task(op, expr, containing, name) ==
    [op |-> op, expr |-> expr, containing |-> containing, name |-> name]

ConcTasks ==
    {Task("addExpression", a[1], a[2], Null) : a \in ConcAssignments}
        \cup {Task("addProcedure", NoExpr, Null, "PI")}
        \cup {Task("noteNonCanonicalInstance", NoExpr, Null, i) : i \in {"m2", "m3", "k2"}}

\* One call of symbolDrivers.try_emplace_and_visit whose callback hands the
\* drivers to addDriver; note tells whether returned references are kept.
Visit(k, symbol, entries, note, ref, driver, instance) ==
    [k |-> k, symbol |-> symbol, entries |-> entries, note |-> note, ref |-> ref,
     driver |-> driver, instance |-> instance]

NoDriver == ValueDriver("None", NoExpr, Null, {})

DriversVisit(symbol, entries, note) ==
    Visit("drivers", symbol, entries, note, Null, NoDriver, Null)

\* One call of noteInterfacePortDriver.
IfacePortVisit(ref, driver) == Visit("ifacePort", Null, <<>>, FALSE, ref, driver, Null)

\* One call of noteNonCanonicalInstance.
InstanceVisit(instance) == Visit("instance", Null, <<>>, FALSE, Null, NoDriver, instance)

\* The return of try_emplace_and_visit, which gives the entry's lock back.
VisitorReturn == Visit("release", Null, <<>>, FALSE, Null, NoDriver, Null)

\* The calls of try_emplace_and_visit an operation starts with.
Begin(task) ==
    IF task.op = "addExpression"
    THEN LET bounds == getBounds(task.expr, task.expr.sym)
         IN  IF bounds = NoBounds THEN <<>>
             ELSE <<DriversVisit(task.expr.sym,
                                 <<Entry(ValueDriver("Continuous", task.expr,
                                                     task.containing, {}),
                                         bounds)>>, TRUE)>>
    ELSE IF task.op = "addProcedure"
    THEN [i \in DOMAIN ProcedureDrivers(task.name) |->
             DriversVisit(ProcedureDrivers(task.name)[i].symbol,
                          ProcedureDrivers(task.name)[i].drivers, TRUE)]
    ELSE <<InstanceVisit(task.name)>>

\* The entry a call of try_emplace_and_visit locks: the map and the key.
LockOf(item) ==
    CASE item.k = "drivers" -> <<"symbolDrivers", item.symbol>>
      [] item.k = "ifacePort" -> <<"instanceMap", PortBody(RefPort(item.ref))>>
      [] OTHER -> <<"instanceMap", CanonicalBody(item.instance)>>

\* Variant: the callbacks run without exclusive access to the entry.
CanLockShared(lock) == TRUE

\* The per-entry exclusive lock: no thread is inside a callback on the entry.
CanLock(lock) ==
    \A o \in Workers : lock \notin {workers[o].held[i] : i \in DOMAIN workers[o].held}

\* applyInstanceSideEffect up to its call of try_emplace_and_visit: the visit of
\* the retargeted symbol with the clone, or nothing.
SideEffectVisits(ifacePortDriver, instance) ==
    LET target == retargetIfacePort(ifacePortDriver.ref, instance)
        clone == SideEffectClone(ifacePortDriver.driver, instance)
    IN  IF target = Null \/ getBounds(clone.prefixExpression, target) = NoBounds THEN <<>>
        ELSE <<DriversVisit(target,
                            <<Entry(clone, getBounds(clone.prefixExpression, target))>>,
                            FALSE)>>

RECURSIVE Flatten(_)
Flatten(qs) == IF qs = <<>> THEN <<>> ELSE Head(qs) \o Flatten(Tail(qs))

\* The recursive call that ends noteInterfacePortDriver, if the port is itself
\* connected through an interface port.
FollowVisits(ref, driver) ==
    LET connRef == PortConnectionRef(RefPort(ref))
    IN  IF connRef # Null /\ ConnRefIsViaIfacePort(connRef)
        THEN <<IfacePortVisit(JoinRef(connRef, ref), driver)>>
        ELSE <<>>

\* Variant: the recorded drivers are not copied out of the visitor.
CopiedIfacePortDriversNone(state) == <<>>

\* ifacePortDrivers = state.ifacePortDrivers, copied out inside the visitor.
CopiedIfacePortDrivers(state) == state.ifacePortDrivers

\* Where the work a callback has collected is done: inside the callback
\* (nested), right after the visitor has returned (after), or when the calls of
\* try_emplace_and_visit of the operation are through (last).
Placed(nested, after, last) == [nested |-> nested, after |-> after, last |-> last]

\* Variant: noteInterfacePortDriver is called from inside the callback.
NotedInsideVisitor(notes) == Placed(notes, <<>>, <<>>)

\* The references addDriver returned are kept in ifacePortRefs and handed to
\* noteInterfacePortDriver in the loop that follows the visits.
NotedAfterVisits(notes) == Placed(<<>>, <<>>, notes)

\* The callback of a symbolDrivers visit, run on the entry value it was handed.
DriversCallback(item, seen) ==
    LET t == AddEach(Tracker([symbolDrivers EXCEPT ![item.symbol] = seen],
                             modportPortDrivers, instanceMap, checked, submitted),
                     item.symbol, item.entries, 1)
        refs == IfacePortRefs(t)
    IN  [value |-> t.symbolDrivers[item.symbol], t |-> t,
         placed |-> NotedAfterVisits(IF item.note
                                     THEN [i \in DOMAIN refs |->
                                              IfacePortVisit(refs[i].ret, refs[i].driver)]
                                     ELSE <<>>)]

\* The updater of noteInterfacePortDriver and the loop after it.
IfacePortCallback(item, seen) ==
    LET ifacePortDriver == [ref |-> item.ref, driver |-> item.driver]
        nonCanonicalInstances == seen.nonCanonicalInstances
    IN  [value |-> [seen EXCEPT !.ifacePortDrivers = Append(@, ifacePortDriver)],
         placed |-> Placed(<<>>,
                           Flatten([i \in DOMAIN nonCanonicalInstances |->
                                       SideEffectVisits(ifacePortDriver,
                                                        nonCanonicalInstances[i])])
                               \o FollowVisits(item.ref, item.driver),
                           <<>>)]

\* The updater of noteNonCanonicalInstance and the loop after it.
InstanceCallback(item, seen) ==
    LET ifacePortDrivers == CopiedIfacePortDrivers(seen)
    IN  [value |-> [seen EXCEPT !.nonCanonicalInstances = Append(@, item.instance)],
         placed |-> Placed(<<>>,
                           Flatten([i \in DOMAIN ifacePortDrivers |->
                                       SideEffectVisits(ifacePortDrivers[i], item.instance)]),
                           <<>>)]

\* The entry value a callback is handed: a driver map or an InstanceState.
Seen(drivers, state) == [drivers |-> drivers, state |-> state]

NothingSeen == Seen(<<>>, EmptyInstanceState)

\* A worker before its operation starts.
Worker(task) ==
    [task |-> task, todo |-> Begin(task), held |-> <<>>, inCallback |-> FALSE,
     seen |-> NothingSeen, diags |-> <<>>, locked |-> {}]

ConcInit ==
    /\ symbolDrivers = <<>>
    /\ modportPortDrivers = <<>>
    /\ instanceMap = <<>>
    /\ propagating = FALSE
    /\ checked = {}
    /\ submitted = [s \in ValueSymbols |-> EmptyBag]
    /\ nOps = 0
    /\ allowDupInitialDrivers \in BOOLEAN
    /\ lastOp = Op("init", Null, Start, <<>>, NoSummary)
    /\ workers \in [Workers -> {Worker(task) : task \in ConcTasks}]
    /\ walk = NoWalk

\* What a worker's next call of try_emplace_and_visit is.
NextVisit(w) == Head(workers[w].todo)

CanVisit(w) ==
    /\ workers[w].todo # <<>>
    /\ ~workers[w].inCallback
    /\ NextVisit(w).k # "release"

\* try_emplace_and_visit is entered: the entry is made if it is missing, its
\* lock is taken and the callback is handed the entry.
Lock(w) ==
    /\ CanVisit(w)
    /\ CanLock(LockOf(NextVisit(w)))
    /\ LET lock == LockOf(NextVisit(w))
           sd == IF lock[1] = "symbolDrivers" THEN TryEmplace(symbolDrivers, lock[2], <<>>)
                 ELSE symbolDrivers
           im == IF lock[1] = "instanceMap"
                 THEN TryEmplace(instanceMap, lock[2], EmptyInstanceState)
                 ELSE instanceMap
       IN  /\ symbolDrivers' = sd
           /\ instanceMap' = im
           /\ workers' = [workers EXCEPT
                  ![w].held = Append(@, lock),
                  ![w].inCallback = TRUE,
                  ![w].seen = IF lock[1] = "symbolDrivers"
                              THEN Seen(sd[lock[2]], EmptyInstanceState)
                              ELSE Seen(<<>>, im[lock[2]]),
                  ![w].locked = @ \cup {[lock |-> lock, held |-> workers[w].held]}]
    /\ UNCHANGED <<modportPortDrivers, propagating, lastOp, checked, submitted, nOps,
                   allowDupInitialDrivers, walk>>

\* The entries of modportPortDrivers that addDriver has locked from inside the
\* callback, for its calls on modport ports.
ModportLocks(calls, held) ==
    {[lock |-> <<"modportPortDrivers", calls[i].symbol>>, held |-> held] :
        i \in {j \in DOMAIN calls : /\ SymbolKind(calls[j].symbol) = "ModportPort"
                                      /\ ~IsClass(calls[j].symbol)}}

\* The todo list once a callback has run: nested work, the return of the
\* visitor, the work that follows it, the rest, and what is kept for last.
Continue(todo, placed) ==
    placed.nested \o <<VisitorReturn>> \o placed.after \o Tail(todo) \o placed.last

\* The callback of a symbolDrivers visit runs.
DriversCallbackRuns(w) ==
    /\ workers[w].inCallback
    /\ NextVisit(w).k = "drivers"
    /\ LET c == DriversCallback(NextVisit(w), workers[w].seen.drivers)
       IN  /\ symbolDrivers' = [symbolDrivers EXCEPT ![NextVisit(w).symbol] = c.value]
           /\ modportPortDrivers' = c.t.modportPortDrivers
           /\ checked' = c.t.checked
           /\ submitted' = c.t.submitted
           /\ workers' = [workers EXCEPT
                  ![w].todo = Continue(@, c.placed),
                  ![w].inCallback = FALSE,
                  ![w].seen = NothingSeen,
                  ![w].diags = @ \o c.t.diags,
                  ![w].locked = @ \cup ModportLocks(c.t.calls, workers[w].held)]
    /\ UNCHANGED <<instanceMap, propagating, lastOp, nOps, allowDupInitialDrivers, walk>>

\* The updater of an instanceMap visit runs.
InstanceCallbackRuns(w) ==
    /\ workers[w].inCallback
    /\ NextVisit(w).k \in {"ifacePort", "instance"}
    /\ LET c == IF NextVisit(w).k = "ifacePort"
                THEN IfacePortCallback(NextVisit(w), workers[w].seen.state)
                ELSE InstanceCallback(NextVisit(w), workers[w].seen.state)
       IN  /\ instanceMap' = [instanceMap EXCEPT ![LockOf(NextVisit(w))[2]] = c.value]
           /\ workers' = [workers EXCEPT
                  ![w].todo = Continue(@, c.placed),
                  ![w].inCallback = FALSE,
                  ![w].seen = NothingSeen]
    /\ UNCHANGED <<symbolDrivers, modportPortDrivers, propagating, lastOp, checked,
                   submitted, nOps, allowDupInitialDrivers, walk>>

\* try_emplace_and_visit returns: the entry's lock is given back.
Unlock(w) ==
    /\ workers[w].todo # <<>>
    /\ ~workers[w].inCallback
    /\ NextVisit(w).k = "release"
    /\ workers' = [workers EXCEPT
           ![w].todo = Tail(@),
           ![w].held = SubSeq(@, 1, Len(@) - 1)]
    /\ UNCHANGED <<symbolDrivers, modportPortDrivers, instanceMap, propagating, lastOp,
                   checked, submitted, nOps, allowDupInitialDrivers, walk>>

ConcNext ==
    \E w \in Workers :
        \/ Lock(w)
        \/ DriversCallbackRuns(w)
        \/ InstanceCallbackRuns(w)
        \/ Unlock(w)

ConcSpec == ConcInit /\ [][ConcNext]_vars

-----------------------------------------------------------------------------
(* Properties.                                                             *)

Range(q) == {q[i] : i \in DOMAIN q}

StoredEntries(s) == Range(getDrivers(symbolDrivers, s))

\* C1: whenever propagateModportDrivers has returned, the modportPortDrivers
\* table is empty: every entry recorded before or during the call, the ones
\* added by re-submitted spliced drivers included, has been taken out.
C1_ModportTableDrained ==
    lastOp.op = "propagateModportDrivers" => DOMAIN modportPortDrivers = {}

\* C1 witness: propagateModportDrivers has returned after a driver recorded on
\* the modport port mq.z went through mp.y (a re-submission recorded during the
\* call) and reached x of u1.
C1_Witness ==
    /\ lastOp.op = "propagateModportDrivers"
    /\ \E e \in StoredEntries("x1") : e.driver.containingSymbol = "PM"

\* C2: a driver whose isFromSideEffect flag is set never causes interface-port
\* recording: addDriver returns a null reference for it, and no entry of
\* instanceMap holds such a driver.
C2_SideEffectNeverRecorded ==
    /\ \A i \in DOMAIN lastOp.calls :
          lastOp.calls[i].driver.isFromSideEffect => lastOp.calls[i].ret = Null
    /\ \A b \in DOMAIN instanceMap :
          \A d \in Range(instanceMap[b].ifacePortDrivers) : ~d.driver.isFromSideEffect

\* C2 witness: addDriver has been called with a side-effect driver whose prefix
\* goes through an interface port.
C2_Witness ==
    \E i \in DOMAIN lastOp.calls :
        /\ lastOp.calls[i].driver.isFromSideEffect
        /\ IsViaIfacePort(lastOp.calls[i].driver.prefixExpression.ref)

\* The side-effect entries that the events recorded in instanceMap put on
\* symbol s: one per (interface-port driver, non-canonical instance) pair of a
\* body whose reference retargets to s.
ExpectedSideEffects(s) ==
    {Entry(SideEffectClone(d.driver, inst), getBounds(d.driver.prefixExpression, s)) :
        <<d, inst>> \in
            UNION {{<<d2, inst2>> \in Range(instanceMap[b].ifacePortDrivers)
                                     \X Range(instanceMap[b].nonCanonicalInstances) :
                        retargetIfacePort(d2.ref, inst2) = s} : b \in DOMAIN instanceMap}}

\* C3: the side-effect drivers stored on each symbol of the main map are a
\* function of which instances and which interface-port drivers have been
\* registered, not of the order of the registrations: they are exactly the
\* clones of every registered driver for every registered instance.
C3_SideEffectsOrderFree ==
    \A s \in ValueSymbols :
        SymbolKind(s) # "ModportPort" =>
            {e \in StoredEntries(s) : e.driver.isFromSideEffect} = ExpectedSideEffects(s)

\* C3 witness: two non-canonical instances of one body and an interface-port
\* driver are registered, and the driver is stored on both instances' symbols.
C3_Witness ==
    /\ "mBody" \in DOMAIN instanceMap
    /\ Len(instanceMap["mBody"].nonCanonicalInstances) >= 2
    /\ Len(instanceMap["mBody"].ifacePortDrivers) >= 1
    /\ \E e \in StoredEntries("x1") : e.driver.isFromSideEffect
    /\ \E e \in StoredEntries("x2") : e.driver.isFromSideEffect

\* The content of getDrivers(s) is the bag of what has been submitted for s.
SnapshotIsSubmitted ==
    /\ \A s \in ValueSymbols : SeqToBag(getDrivers(symbolDrivers, s)) = submitted[s]
    /\ lastOp.op = "getDrivers" => SeqToBag(lastOp.result) = submitted[lastOp.arg]

\* C4: getDrivers(s) is, as a multiset, exactly what has been submitted for s
\* (s not class-typed, not a modport port) together with the synthesized
\* initializer driver: nothing missing, duplicated or added, also for drivers
\* whose insertion produced a diagnostic; and getDrivers changes no state.
C4_GetDriversIsWhatWasInserted ==
    /\ []SnapshotIsSubmitted
    /\ [][lastOp'.op = "getDrivers" =>
             UNCHANGED <<symbolDrivers, modportPortDrivers, instanceMap>>]_vars

\* C4 witness: getDrivers has returned both drivers of the uwire w right after
\* the insertion of the second one was reported.
C4_Witness ==
    /\ lastOp.op = "getDrivers"
    /\ lastOp.arg = "w"
    /\ lastOp.prev.codes = <<"MultipleUWireDrivers">>
    /\ Len(lastOp.result) = 2

\* The verdict of handleOverlap: the diagnostic codes and the return value.
Verdict(symbol, curr, driver) ==
    LET isNet == SymbolKind(symbol) = "Net"
        isUWire == isNet /\ NetKind(symbol) = "UWire"
        isUDNT == isNet /\ NetKind(symbol) = "UserDefined" /\ ~HasResolutionFunction(symbol)
        h == handleOverlap(symbol, curr, driver, isNet, isUWire, isUDNT)
    IN  <<Codes(h.diags), h.ret>>

\* C5: legality reporting is not order-sensitive: for every pair handed to
\* handleOverlap, the verdict (diagnostic code, return value) is the same
\* with curr and driver exchanged.
C5_VerdictSymmetric ==
    \A i \in DOMAIN lastOp.calls :
        \A o \in Range(lastOp.calls[i].overlaps) :
            Verdict(lastOp.calls[i].symbol, o.curr, lastOp.calls[i].driver)
                = Verdict(lastOp.calls[i].symbol, lastOp.calls[i].driver, o.curr)

\* C6 as stated: no class-typed symbol is a key of symbolDrivers.
C6_NoClassTypedKey ==
    \A s \in DOMAIN symbolDrivers : ~IsClass(s)

\* C6: a class-typed symbol may be a key of symbolDrivers, since
\* try_emplace_and_visit makes the entry before addDriver rejects the symbol,
\* but the entry's driver map stays empty.
C6_ClassTypedKeyStaysEmpty ==
    \A s \in DOMAIN symbolDrivers : IsClass(s) => symbolDrivers[s] = <<>>

\* C6 witness: a driver has been submitted for the class-typed c, which is a
\* key of the map.
C6_Witness ==
    /\ "c" \in DOMAIN symbolDrivers
    /\ \E i \in DOMAIN lastOp.calls : lastOp.calls[i].symbol = "c"

\* C7: no driver is stored against a class-typed symbol: addDriver on it
\* returns a null reference, emits no diagnostic, synthesizes no initializer
\* driver and records nothing in either map.
C7_ClassTypedNeverDriven ==
    /\ \A i \in DOMAIN lastOp.calls :
          IsClass(lastOp.calls[i].symbol) =>
              /\ lastOp.calls[i].ret = Null
              /\ lastOp.calls[i].diags = <<>>
              /\ lastOp.calls[i].overlaps = <<>>
    /\ \A s \in ValueSymbols :
          IsClass(s) => /\ getDrivers(symbolDrivers, s) = <<>>
                        /\ s \notin DOMAIN modportPortDrivers
                        /\ submitted[s] = EmptyBag

\* C7 witness: add(procedure) has called addDriver on the class-typed c, which
\* has an initializer, after storing a driver of the same list on v.
C7_Witness ==
    /\ lastOp.op = "addProcedure"
    /\ \E i \in DOMAIN lastOp.calls :
          IsClass(lastOp.calls[i].symbol) /\ HasInitializer(lastOp.calls[i].symbol)
    /\ StoredEntries("v") # {}

OverlappingPairs(s) ==
    {p \in (1..Len(symbolDrivers[s])) \X (1..Len(symbolDrivers[s])) :
        /\ p[1] < p[2]
        /\ Overlaps(symbolDrivers[s][p[1]].bounds, symbolDrivers[s][p[2]].bounds)}

Tested(s, i, j) ==
    \E c \in checked : c.symbol = s /\ c.curr = i /\ c.new = j

\* C9 as stated: every two drivers stored in one map with intersecting bounds
\* went through the isProblem test when the later one was inserted.
C9_EveryOverlapTested ==
    \A s \in DOMAIN symbolDrivers :
        \A p \in OverlappingPairs(s) : Tested(s, p[1], p[2])

\* C9: every two drivers stored in one map with intersecting bounds went
\* through the isProblem test when the later one was inserted, unless the scan
\* of that insertion was ended by an error handleOverlap reported for another
\* stored entry.
C9_EveryOverlapTestedUntilError ==
    \A s \in DOMAIN symbolDrivers :
        \A p \in OverlappingPairs(s) :
            \/ Tested(s, p[1], p[2])
            \/ \E c \in checked :
                  c.symbol = s /\ c.new = p[2] /\ c.curr # p[1] /\ c.error

\* C9 witness: a map holds an overlapping pair that never went through the
\* test, and some pair was tested without an error.
C9_Witness ==
    /\ \E s \in DOMAIN symbolDrivers :
          \E p \in OverlappingPairs(s) : ~Tested(s, p[1], p[2])
    /\ \E c \in checked : ~c.error

\* Bag of the diagnostic codes of an ingestion.
CodeBag(codes) == SeqToBag(codes)

\* The last two operations ingested the same per-procedure driver list.
SameListTwice ==
    /\ lastOp.op = "addProcedure"
    /\ lastOp.prev.op = "addProcedure"
    /\ lastOp.prev.arg = lastOp.arg

\* C10 as stated: the second of two ingestions of the same per-procedure
\* driver list emits the same multiset of diagnostic codes as the first.
C10_SameDiagnosticsTwice ==
    SameListTwice => CodeBag(Codes(lastOp.diags)) = CodeBag(lastOp.prev.codes)

\* applyInstanceSideEffect has replayed a driver during the last operation.
Replayed == \E i \in DOMAIN lastOp.calls : lastOp.calls[i].driver.isFromSideEffect

\* C10: the second of two ingestions of the same per-procedure driver list
\* (Procedural drivers of one procedure) emits the same multiset of diagnostic
\* codes as the first, provided the ingestion replays no driver onto a
\* non-canonical instance.
C10_SameDiagnosticsTwiceWithoutReplay ==
    (SameListTwice /\ ~Replayed) => CodeBag(Codes(lastOp.diags)) = CodeBag(lastOp.prev.codes)

\* C10 witness: a list has been ingested twice without replay, both times
\* with a diagnostic, and its drivers are stored twice.
C10_Witness ==
    /\ SameListTwice
    /\ ~Replayed
    /\ lastOp.diags # <<>>
    /\ \E i \in DOMAIN lastOp.calls :
          Cardinality({k \in DOMAIN getDrivers(symbolDrivers, lastOp.calls[i].symbol) :
                          getDrivers(symbolDrivers, lastOp.calls[i].symbol)[k].driver
                              = lastOp.calls[i].driver}) >= 2

\* The last operation made one addDriver call, on s, and it was insertion
\* number n into s's map.
LastInsertion(s, n) ==
    /\ Len(lastOp.calls) = 1
    /\ lastOp.calls[1].symbol = s
    /\ s \in DOMAIN symbolDrivers
    /\ Len(symbolDrivers[s]) = n
    /\ symbolDrivers[s][n].driver = lastOp.calls[1].driver

IsUWire(s) == SymbolKind(s) = "Net" /\ NetKind(s) = "UWire"

\* A Continuous driver without a port flag.
ContinuousNonPort(d) == d.kind = "Continuous" /\ ~isUnidirectionalPort(d)

\* C11 as stated: on a uwire net without initializer holding two Continuous
\* non-port drivers, the second insertion emitted exactly one
\* MultipleUWireDrivers iff the two bit ranges intersect, and the first
\* insertion emitted nothing.
C11_UWireConflictIffIntersect ==
    \A s \in ValueSymbols :
        (IsUWire(s) /\ ~HasInitializer(s)) =>
            /\ (LastInsertion(s, 1) /\ ContinuousNonPort(symbolDrivers[s][1].driver))
                  => lastOp.diags = <<>>
            /\ (/\ LastInsertion(s, 2)
                /\ ContinuousNonPort(symbolDrivers[s][1].driver)
                /\ ContinuousNonPort(symbolDrivers[s][2].driver))
                  => (Codes(lastOp.diags) = <<"MultipleUWireDrivers">>
                        <=> Overlaps(symbolDrivers[s][1].bounds, symbolDrivers[s][2].bounds))

\* C11: on a uwire net without initializer holding two Continuous drivers
\* that are neither port nor clocking-variable drivers, the second insertion
\* emitted exactly one MultipleUWireDrivers if the two bit ranges intersect
\* and nothing otherwise, and the first insertion emitted nothing.
C11_UWireConflictIffIntersectNoClockVar ==
    \A s \in ValueSymbols :
        (IsUWire(s) /\ ~HasInitializer(s)) =>
            /\ (LastInsertion(s, 1) /\ ContinuousNonPort(symbolDrivers[s][1].driver))
                  => lastOp.diags = <<>>
            /\ (/\ LastInsertion(s, 2)
                /\ \A k \in 1..2 : /\ ContinuousNonPort(symbolDrivers[s][k].driver)
                                   /\ ~isClockVar(symbolDrivers[s][k].driver))
                  => Codes(lastOp.diags) =
                        IF Overlaps(symbolDrivers[s][1].bounds, symbolDrivers[s][2].bounds)
                        THEN <<"MultipleUWireDrivers">> ELSE <<>>

\* C11 witness: the second of two continuous assignments to intersecting
\* parts of the uwire w has been reported.
C11_Witness ==
    /\ LastInsertion("w", 2)
    /\ \A k \in 1..2 : /\ ContinuousNonPort(symbolDrivers["w"][k].driver)
                       /\ ~isClockVar(symbolDrivers["w"][k].driver)
    /\ symbolDrivers["w"][1].bounds # symbolDrivers["w"][2].bounds
    /\ Codes(lastOp.diags) = <<"MultipleUWireDrivers">>

\* The first addDriver on the net s, declared wire with an initializer, was
\* the last operation and submitted a continuous assignment.
FirstAssignToInitializedWire(s) ==
    /\ SymbolKind(s) = "Net"
    /\ NetKind(s) = "Wire"
    /\ HasInitializer(s)
    /\ LastInsertion(s, 2)
    /\ "Initializer" \in symbolDrivers[s][1].driver.flags
    /\ ContinuousNonPort(symbolDrivers[s][2].driver)

\* C12 as stated: one continuous assignment to a wire with an initializer
\* emits MultipleContAssigns.
C12_InitializedWireReported ==
    \A s \in ValueSymbols :
        FirstAssignToInitializedWire(s) =>
            \E i \in DOMAIN lastOp.diags : lastOp.diags[i].code = "MultipleContAssigns"

\* C12: one continuous assignment to a wire with an initializer emits no
\* diagnostic: the first addDriver synthesizes a Continuous Initializer driver
\* over [0, width-1] that overlaps the assignment, and the pair goes through
\* the isProblem test, which is negative for a plain wire.
C12_InitializedWireNotReported ==
    \A s \in ValueSymbols :
        FirstAssignToInitializedWire(s) =>
            /\ lastOp.diags = <<>>
            /\ symbolDrivers[s][1].driver.kind = "Continuous"
            /\ symbolDrivers[s][1].bounds = <<0, SelectableWidth(s) - 1>>
            /\ Overlaps(symbolDrivers[s][1].bounds, symbolDrivers[s][2].bounds)
            /\ [symbol |-> s, curr |-> 1, new |-> 2, error |-> FALSE] \in checked

\* C12 witness: the assignment to the initialized wire ni has been added and
\* is stored after the synthesized initializer driver.
C12_Witness ==
    /\ FirstAssignToInitializedWire("ni")
    /\ symbolDrivers["ni"][2].driver.prefixExpression.sourceRange = "a5"

\* The addDriver calls of the last operation on symbol s.
CallsOn(s) == {i \in DOMAIN lastOp.calls : lastOp.calls[i].symbol = s}

\* Call i of the last operation was insertion number n into s's map.
InsertionBy(s, n, i) ==
    /\ CallsOn(s) = {i}
    /\ s \in DOMAIN symbolDrivers
    /\ Len(symbolDrivers[s]) = n
    /\ symbolDrivers[s][n].driver = lastOp.calls[i].driver

\* The driver add(portSymbol) creates for an input port.
IsInputPortDriver(d) == d.kind = "Continuous" /\ d.flags = {"InputPort"}

IsAlwaysCombDriver(d) == d.kind = "Procedural" /\ d.source = "AlwaysComb" /\ d.flags = {}

\* s's map holds an input port driver and an overlapping always_comb driver,
\* in either order, the later one inserted by call i of the last operation.
InputPortThenAssigned(s, i) ==
    /\ SymbolKind(s) = "Variable"
    /\ InsertionBy(s, 2, i)
    /\ Overlaps(symbolDrivers[s][1].bounds, symbolDrivers[s][2].bounds)
    /\ \E a, b \in 1..2 : /\ a # b
                          /\ IsInputPortDriver(symbolDrivers[s][a].driver)
                          /\ IsAlwaysCombDriver(symbolDrivers[s][b].driver)

\* C13: for a variable driven by its input port and by an overlapping
\* always_comb driver, in either order, the second insertion emits exactly one
\* InputPortAssign, handleOverlap returns false and the scan stops there.
C13_InputPortAssignEitherOrder ==
    \A s \in ValueSymbols :
        \A i \in DOMAIN lastOp.calls :
            InputPortThenAssigned(s, i) =>
                /\ Codes(lastOp.calls[i].diags) = <<"InputPortAssign">>
                /\ Len(lastOp.calls[i].overlaps) = 1
                /\ ~lastOp.calls[i].overlaps[1].ret
                /\ ScanStops(lastOp.calls[i].overlaps[1])
                /\ [symbol |-> s, curr |-> 1, new |-> 2, error |-> TRUE] \in checked

\* C13 witness: the always_comb procedure PA has been added after the input
\* port of v and has been reported.
C13_Witness ==
    /\ \E i \in DOMAIN lastOp.calls : InputPortThenAssigned("v", i)
    /\ IsInputPortDriver(symbolDrivers["v"][1].driver)
    /\ lastOp.op = "addProcedure"

\* C13 witness of the other order: the input port of v has been added after
\* the always_comb procedure PA.
C13_WitnessPortLast ==
    /\ \E i \in DOMAIN lastOp.calls : InputPortThenAssigned("v", i)
    /\ IsInputPortDriver(symbolDrivers["v"][2].driver)

\* The prefix expression with its root replaced by the root of the connection
\* expression; the connection expression itself when the prefix has no select.
Rerooted(conn, prefix) ==
    IF prefix.sel = "None" THEN conn
    ELSE [prefix EXCEPT !.kind = conn.kind, !.sym = conn.sym, !.ref = conn.ref]

\* What one iteration of propagateModportDrivers has to submit for the table
\* it swapped out: per recorded driver of a port with a connection expression,
\* one fresh driver on the connection's target.
ExpectedResubmissions(copy) ==
    LET withConn == {port \in DOMAIN copy : ConnectionExpr(port) # NoExpr}
        fresh(port, e) ==
            [symbol |-> ConnectionExpr(port).sym,
             driver |-> ValueDriver(e.driver.kind,
                                    Rerooted(ConnectionExpr(port), e.driver.prefixExpression),
                                    e.driver.containingSymbol, e.driver.flags)]
    IN  BagUnion({SeqToBag([k \in DOMAIN copy[port] |-> fresh(port, copy[port][k])]) :
                      port \in withConn})

\* The addDriver calls of the last operation that are not replays onto
\* non-canonical instances, as a bag of (symbol, driver).
Resubmissions ==
    LET own == SelectSeq(lastOp.calls, LAMBDA c : ~c.driver.isFromSideEffect)
    IN  SeqToBag([k \in DOMAIN own |-> [symbol |-> own[k].symbol, driver |-> own[k].driver]])

\* C14: in every iteration of propagateModportDrivers each driver recorded
\* against a modport port with a connection expression is re-submitted exactly
\* once as a fresh driver on the connection's target, with the original kind,
\* flags and containingSymbol and the outer select re-rooted on the connection
\* expression; drivers of ports without a connection expression are dropped
\* without a diagnostic; and the table is empty when the call has returned.
C14_ResubmittedExactlyOnce ==
    /\ lastOp.op = "propagatePass" =>
          /\ Resubmissions = ExpectedResubmissions(lastOp.result)
          /\ (\A port \in DOMAIN lastOp.result : ConnectionExpr(port) = NoExpr)
                => (lastOp.calls = <<>> /\ lastOp.diags = <<>>)
          /\ \A port \in DOMAIN lastOp.result :
                port \in DOMAIN modportPortDrivers =>
                    \A e \in Range(modportPortDrivers[port]) :
                        \E i \in DOMAIN lastOp.calls :
                            lastOp.calls[i].symbol = port /\ lastOp.calls[i].driver = e.driver
    /\ lastOp.op = "propagateModportDrivers" => DOMAIN modportPortDrivers = {}

\* C14 witness: an iteration has taken out a driver on mq.z[1:0] and one on
\* the unconnected port nc, and has re-submitted the first on mp.y.
C14_Witness ==
    /\ lastOp.op = "propagatePass"
    /\ {"mqz", "mnc"} \subseteq DOMAIN lastOp.result
    /\ \E i \in DOMAIN lastOp.calls :
          /\ lastOp.calls[i].symbol = "mpy"
          /\ lastOp.calls[i].driver.prefixExpression.sel = "RangeSelect"
          /\ lastOp.calls[i].driver.containingSymbol = "PM"

\* A net that is neither a uwire nor a user-defined net without resolution
\* function.
IsResolvedNet(s) ==
    /\ SymbolKind(s) = "Net"
    /\ NetKind(s) # "UWire"
    /\ ~(NetKind(s) = "UserDefined" /\ ~HasResolutionFunction(s))

\* The one unidirectional port driver of a pair.
PortDriverOf(curr, driver) == IF isUnidirectionalPort(curr) THEN curr ELSE driver

\* C15: on a net that is neither uwire nor single-driver UDNT, for a pair
\* handed to handleOverlap of which exactly one is a unidirectional port
\* driver, the diagnostic is InputPortCoercion if that driver has the
\* InputPort flag and OutputPortCoercion if it has the OutputPort flag,
\* whichever of the two was stored first, and the overlap is tolerated.
C15_CoercionNamesThePort ==
    \A i \in DOMAIN lastOp.calls :
        \A o \in Range(lastOp.calls[i].overlaps) :
            (/\ IsResolvedNet(lastOp.calls[i].symbol)
             /\ isUnidirectionalPort(o.curr) # isUnidirectionalPort(lastOp.calls[i].driver))
                => /\ o.ret
                   /\ Codes(o.diags) =
                         IF "InputPort" \in PortDriverOf(o.curr, lastOp.calls[i].driver).flags
                         THEN <<"InputPortCoercion">> ELSE <<"OutputPortCoercion">>

\* The handleOverlap calls of an addDriver call that reported an error.
Errors(call) == SelectSeq(call.overlaps, LAMBDA o : ~o.ret)

\* The stored entries after entry i that the scan for entry j has to visit.
LaterOverlapping(s, i, j) ==
    {k \in (i + 1)..(j - 1) : Overlaps(symbolDrivers[s][k].bounds, symbolDrivers[s][j].bounds)}

\* C16: one addDriver call emits at most one error diagnostic: the scan stops
\* at the first pair for which handleOverlap returns false, which is then the
\* last pair handed to it, while after a pair that is no problem or is
\* tolerated the scan goes on to the next overlapping entry.
C16_OneErrorPerInsertion ==
    /\ \A i \in DOMAIN lastOp.calls :
          /\ Len(Errors(lastOp.calls[i])) <= 1
          /\ \A k \in DOMAIN lastOp.calls[i].overlaps :
                /\ Len(lastOp.calls[i].overlaps[k].diags) <= 1
                /\ ~lastOp.calls[i].overlaps[k].ret =>
                      /\ k = Len(lastOp.calls[i].overlaps)
                      /\ Len(lastOp.calls[i].overlaps[k].diags) = 1
    /\ \A c \in checked :
          /\ c.error => \A d \in checked :
                            (d.symbol = c.symbol /\ d.new = c.new) => d.curr <= c.curr
          /\ ~c.error => \A k \in LaterOverlapping(c.symbol, c.curr, c.new) :
                             \/ Tested(c.symbol, k, c.new)
                             \/ \E d \in checked : /\ d.symbol = c.symbol
                                                   /\ d.new = c.new
                                                   /\ d.curr < k
                                                   /\ d.error

\* C16 witness: one addDriver call went past a tolerated pair and stopped at
\* a reported error.
C16_Witness ==
    \E i \in DOMAIN lastOp.calls :
        /\ Len(lastOp.calls[i].overlaps) >= 2
        /\ lastOp.calls[i].overlaps[1].ret
        /\ ~lastOp.calls[i].overlaps[Len(lastOp.calls[i].overlaps)].ret

\* C16 witness of a scan going on after a warning: one addDriver call has
\* emitted two port coercion warnings.
C16_WitnessTwoWarnings ==
    \E i \in DOMAIN lastOp.calls :
        /\ Len(lastOp.calls[i].diags) = 2
        /\ Errors(lastOp.calls[i]) = <<>>

IsStaticVariable(s) == SymbolKind(s) = "Variable" /\ Lifetime(s) = "Static"

\* A Procedural driver that is neither a port nor a clocking-variable driver.
PlainProcedural(d) ==
    d.kind = "Procedural" /\ d.flags \cap {"InputPort", "OutputPort", "ClockVar"} = {}

Ignorable(d) ==
    \/ d.source = "Subroutine"
    \/ "Initializer" \in d.flags
    \/ (d.source = "Initial" /\ allowDupInitialDrivers)

\* The condition under which two overlapping procedural drivers are reported.
MustReport(a, b) ==
    /\ a.containingSymbol # b.containingSymbol
    /\ ~Ignorable(a)
    /\ ~Ignorable(b)
    /\ (a.source \in {"AlwaysComb", "AlwaysFF", "AlwaysLatch"}
          \/ b.source \in {"AlwaysComb", "AlwaysFF", "AlwaysLatch"})

C17_WitnessIgnored ==
    /\ allowDupInitialDrivers
    /\ \E i \in DOMAIN lastOp.calls :
          /\ InsertionBy("v", 2, i)
          /\ {symbolDrivers["v"][1].driver.source, symbolDrivers["v"][2].driver.source}
                = {"Initial", "AlwaysComb"}
          /\ lastOp.calls[i].diags = <<>>

SingleDriverKinds == {"AlwaysComb", "AlwaysFF", "AlwaysLatch"}

\* C18: whenever MultipleAlwaysAssigns is emitted, both drivers are
\* Procedural, at least one of them is in an always_comb / always_ff /
\* always_latch procedure, and the procedure kind the diagnostic names is the
\* kind of such a procedure among the two.
C18_MultipleAlwaysAssignsNamesSingleDriver ==
    \A i \in DOMAIN lastOp.calls :
        \A o \in Range(lastOp.calls[i].overlaps) :
            \A k \in DOMAIN o.diags :
                o.diags[k].code = "MultipleAlwaysAssigns" =>
                    /\ o.curr.kind = "Procedural"
                    /\ lastOp.calls[i].driver.kind = "Procedural"
                    /\ o.diags[k].arg \in
                          {o.curr.source, lastOp.calls[i].driver.source} \cap SingleDriverKinds

\* C18 witness: MultipleAlwaysAssigns has been emitted for a new driver in an
\* initial block against a stored always_comb driver, and names always_comb.
C18_Witness ==
    \E i \in DOMAIN lastOp.calls :
        \E o \in Range(lastOp.calls[i].overlaps) :
            /\ Codes(o.diags) = <<"MultipleAlwaysAssigns">>
            /\ lastOp.calls[i].driver.source = "Initial"
            /\ o.diags[1].arg = "AlwaysComb"

\* One of the port rules of handleOverlap applies to the pair.
PortRuleApplies(s, curr, driver) ==
    IF SymbolKind(s) = "Net"
    THEN IsResolvedNet(s) /\ (isUnidirectionalPort(curr) \/ isUnidirectionalPort(driver))
    ELSE "InputPort" \in (curr.flags \cup driver.flags)

\* C19: when handleOverlap is reached for a pair with at least one clockvar
\* driver and no port rule applies, nothing is emitted and the overlap is
\* tolerated if both are clockvar drivers or either is Procedural; in every
\* other case exactly one ClockVarTargetAssign is emitted and it returns false.
C19_ClockVarVerdict ==
    \A i \in DOMAIN lastOp.calls :
        \A o \in Range(lastOp.calls[i].overlaps) :
            (/\ "ClockVar" \in (o.curr.flags \cup lastOp.calls[i].driver.flags)
             /\ ~PortRuleApplies(lastOp.calls[i].symbol, o.curr, lastOp.calls[i].driver))
                => IF \/ ("ClockVar" \in o.curr.flags
                            /\ "ClockVar" \in lastOp.calls[i].driver.flags)
                      \/ "Procedural" \in {o.curr.kind, lastOp.calls[i].driver.kind}
                   THEN o.diags = <<>> /\ o.ret
                   ELSE Codes(o.diags) = <<"ClockVarTargetAssign">> /\ ~o.ret

\* C19 witness: a continuous assignment has been added to the target of a
\* stored clockvar driver and ClockVarTargetAssign has been emitted.
C19_Witness ==
    \E i \in DOMAIN lastOp.calls :
        \E o \in Range(lastOp.calls[i].overlaps) :
            /\ "ClockVar" \in o.curr.flags
            /\ lastOp.calls[i].driver.flags = {}
            /\ Codes(o.diags) = <<"ClockVarTargetAssign">>

\* C19 witness of the tolerated pairs: a procedural driver has been added to
\* a variable that holds two clockvar drivers.
C19_WitnessTolerated ==
    \E i \in DOMAIN lastOp.calls :
        /\ lastOp.calls[i].driver.kind = "Procedural"
        /\ Len(lastOp.calls[i].overlaps) >= 1
        /\ "ClockVar" \in lastOp.calls[i].overlaps[1].curr.flags
        /\ lastOp.calls[i].overlaps[1].ret
        /\ \E c \in checked : /\ c.symbol = lastOp.calls[i].symbol
                              /\ c.curr = 1 /\ c.new = 2 /\ ~c.error
                              /\ "ClockVar" \in symbolDrivers[c.symbol][2].driver.flags

\* The positions of the Initializer-flagged drivers in s's map.
InitializerPositions(s) ==
    {k \in DOMAIN symbolDrivers[s] : "Initializer" \in symbolDrivers[s][k].driver.flags}

\* C20: a non-empty driver map of a Net / Variable / ClassProperty / Field
\* symbol with an initializer holds exactly one Initializer-flagged driver: it
\* spans [0, selectableWidth-1], is Continuous for a Net and Procedural
\* otherwise, was inserted before every submitted driver, and the first
\* submitted driver went through the overlap check against it; the map of any
\* other symbol holds no Initializer-flagged driver.
C20_OneInitializerDriverFirst ==
    \A s \in DOMAIN symbolDrivers :
        symbolDrivers[s] # <<>> =>
            IF HasInitializer(s)
               /\ SymbolKind(s) \in {"Net", "Variable", "ClassProperty", "Field"}
            THEN /\ InitializerPositions(s) = {1}
                 /\ symbolDrivers[s][1].bounds = <<0, SelectableWidth(s) - 1>>
                 /\ symbolDrivers[s][1].driver.kind =
                       IF SymbolKind(s) = "Net" THEN "Continuous" ELSE "Procedural"
                 /\ symbolDrivers[s][1].driver.prefixExpression.sym = s
                 /\ Len(symbolDrivers[s]) >= 2
                 /\ Tested(s, 1, 2)
                 /\ submitted[s] = SeqToBag(symbolDrivers[s])
            ELSE InitializerPositions(s) = {}

\* C20 witness: the always_ff procedure PB has driven the initialized variable
\* vi, whose map holds the Procedural initializer driver before PB's driver.
C20_Witness ==
    /\ "vi" \in DOMAIN symbolDrivers
    /\ Len(symbolDrivers["vi"]) = 2
    /\ symbolDrivers["vi"][1].driver.kind = "Procedural"
    /\ "Initializer" \in symbolDrivers["vi"][1].driver.flags
    /\ symbolDrivers["vi"][2].driver.containingSymbol = "PB"

\* The drivers recorded against the modport port s, in recording order.
ModportEntries(s) ==
    IF s \in DOMAIN modportPortDrivers THEN modportPortDrivers[s] ELSE <<>>

\* The (driver, bounds) pairs of the addDriver calls of operation o on s.
CallEntries(o, s) ==
    LET on == SelectSeq(o.calls, LAMBDA c : c.symbol = s)
    IN  [k \in DOMAIN on |-> Entry(on[k].driver, on[k].bounds)]

\* addDriver on a modport port runs no overlap check, emits no diagnostic and
\* leaves the main map alone.
ModportPortStaysOutOfMainMap ==
    /\ \A i \in DOMAIN lastOp.calls :
          SymbolKind(lastOp.calls[i].symbol) = "ModportPort" =>
              lastOp.calls[i].diags = <<>> /\ lastOp.calls[i].overlaps = <<>>
    /\ \A s \in ValueSymbols :
          SymbolKind(s) = "ModportPort" =>
              /\ getDrivers(symbolDrivers, s) = <<>>
              /\ submitted[s] = EmptyBag
    /\ (lastOp.op = "getDrivers" /\ SymbolKind(lastOp.arg) = "ModportPort") =>
          lastOp.result = <<>>

\* C21: a driver submitted for a ModportPort symbol never enters the main
\* map: addDriver appends (driver, bounds) to modportPortDrivers[symbol] (to
\* the table as the operation found it, which an iteration of
\* propagateModportDrivers has swapped out first), leaves the symbol's interval
\* map unchanged, synthesizes no initializer driver, runs no overlap check and
\* emits no diagnostic, so getDrivers on a ModportPort symbol is always empty.
C21_ModportPortOnlyRecorded ==
    /\ []ModportPortStaysOutOfMainMap
    /\ [][\A s \in ValueSymbols :
             SymbolKind(s) = "ModportPort" =>
                 ModportEntries(s)' =
                     (IF lastOp'.op \in {"propagatePass", "propagateModportDrivers"}
                      THEN <<>> ELSE ModportEntries(s)) \o CallEntries(lastOp', s)]_vars

\* C21 witness: a second driver has been recorded against the modport port
\* mp.y of u1, which is a key of the main map with an empty interval map.
C21_Witness ==
    /\ Len(ModportEntries("mpy")) = 2
    /\ Len(CallEntries(lastOp, "mpy")) = 1
    /\ "mpy" \in DOMAIN symbolDrivers
    /\ symbolDrivers["mpy"] = <<>>

\* Every worker has finished its operation.
ConcDone == \A w \in Workers : workers[w].todo = <<>>

\* The diagnostics of all workers.
RECURSIVE AllDiags(_)
AllDiags(ws) ==
    IF ws = {} THEN <<>>
    ELSE LET w == CHOOSE x \in ws : TRUE IN workers[w].diags \o AllDiags(ws \ {w})

\* Both workers add one Continuous driver to the overlap-checked symbol s,
\* with intersecting ranges.
BothAssign(s) ==
    /\ \A w \in Workers : /\ workers[w].task.op = "addExpression"
                          /\ workers[w].task.expr.sym = s
    /\ IsUWire(s) \/ IsStaticVariable(s)
    /\ \A w, o \in Workers :
          Overlaps(getBounds(workers[w].task.expr, s), getBounds(workers[o].task.expr, s))

\* One multiple-driver diagnostic in all, and the drivers of both workers
\* stored and nothing else.
OneDiagnosticBothStored(s) ==
    /\ Len(AllDiags(Workers)) = 1
    /\ AllDiags(Workers)[1].code \in {"MultipleUWireDrivers", "MultipleContAssigns"}
    /\ SeqToBag([i \in DOMAIN symbolDrivers[s] |->
                    symbolDrivers[s][i].driver.prefixExpression])
          = SeqToBag([i \in 1..2 |->
                         workers[IF i = 1 THEN "w1" ELSE "w2"].task.expr])

RegisteredPairs ==
    UNION {{b} \X (DOMAIN instanceMap[b].ifacePortDrivers)
               \X (DOMAIN instanceMap[b].nonCanonicalInstances) : b \in DOMAIN instanceMap}

PairDriver(p) == instanceMap[p[1]].ifacePortDrivers[p[2]]

PairInstance(p) == instanceMap[p[1]].nonCanonicalInstances[p[3]]

\* The entry the replay of pair p has to store.
PairEntry(p) ==
    Entry([PairDriver(p).driver EXCEPT !.containingSymbol = PairInstance(p),
                                       !.isFromSideEffect = TRUE],
          getBounds(PairDriver(p).driver.prefixExpression,
                    retargetIfacePort(PairDriver(p).ref, PairInstance(p))))

\* The pairs whose replay lands on s.
PairsOn(s) ==
    {p \in RegisteredPairs : retargetIfacePort(PairDriver(p).ref, PairInstance(p)) = s}

\* One entry per pair whose replay lands on s.
ExpectedReplays(s) ==
    [e \in {PairEntry(p) : p \in PairsOn(s)} |->
        Cardinality({p \in PairsOn(s) : PairEntry(p) = e})]

\* The side-effect entries stored on s.
StoredReplays(s) ==
    SeqToBag(SelectSeq(getDrivers(symbolDrivers, s), LAMBDA e : e.driver.isFromSideEffect))

\* The workers whose operation registers instance inst.
Registering(inst) ==
    {w \in Workers : /\ workers[w].task.op = "noteNonCanonicalInstance"
                     /\ workers[w].task.name = inst}

\* C23: under any interleaving of concurrent noteNonCanonicalInstance and
\* noteInterfacePortDriver calls on the same canonical body, every
\* (interface-port driver, non-canonical instance) pair is replayed through
\* applyInstanceSideEffect exactly once: no pair is ever replayed twice, and
\* once the calls have returned each pair has stored one clone of the driver,
\* with containingSymbol the instance and isFromSideEffect true, on the
\* retargeted symbol; no registration of an instance is lost.
C23_EveryPairReplayedOnce ==
    /\ \A s \in ValueSymbols : StoredReplays(s) \sqsubseteq ExpectedReplays(s)
    /\ ConcDone =>
          /\ \A s \in ValueSymbols : StoredReplays(s) = ExpectedReplays(s)
          /\ \A inst \in NonCanonicalInstances :
                Cardinality(Registering(inst)) =
                    Len(SelectSeq(getNonCanonicalInstances(instanceMap, CanonicalBody(inst)),
                                  LAMBDA i : i = inst))
          /\ Len(getIfacePortDrivers(instanceMap, "mBody")) =
                Cardinality({w \in Workers :
                                workers[w].task.name = "PI"
                                \/ workers[w].task.expr.ref = "rpx"})

\* C23 witness: one worker has registered the instance m2 while the other
\* added a driver through the interface port of m's body; the driver was
\* recorded first, and the worker of the instance has replayed it on x of u2.
C23_Witness ==
    /\ ConcDone
    /\ workers["w1"].task.name = "m2"
    /\ workers["w2"].task.name = "PI"
    /\ \E e \in workers["w1"].locked : e.lock = <<"symbolDrivers", "x2">>
    /\ Cardinality({e \in StoredEntries("x2") : e.driver.isFromSideEffect}) = 1

\* C23 witness of the other order: the instance was registered first, and the
\* worker of the driver has replayed it.
C23_WitnessDriverReplays ==
    /\ ConcDone
    /\ workers["w1"].task.name = "m2"
    /\ workers["w2"].task.name = "PI"
    /\ \E e \in workers["w2"].locked : e.lock = <<"symbolDrivers", "x2">>
    /\ Cardinality({e \in StoredEntries("x2") : e.driver.isFromSideEffect}) = 1

\* The maps of which worker w holds an entry lock.
HeldMaps(held) == {held[i][1] : i \in DOMAIN held}

\* Worker w can take a step.
CanStep(w) ==
    \/ workers[w].inCallback
    \/ workers[w].todo # <<>> /\ NextVisit(w).k = "release"
    \/ CanVisit(w) /\ CanLock(LockOf(NextVisit(w)))

\* C24: no worker acquires an entry lock of symbolDrivers or of instanceMap
\* while it is inside a visitor callback of that same map; noteInterfacePortDriver
\* (an instanceMap visit) is only called after the symbolDrivers visitor has
\* returned, applyInstanceSideEffect (a symbolDrivers visit) only after the
\* instanceMap visitor has returned; and concurrent add /
\* noteNonCanonicalInstance / noteInterfacePortDriver calls cannot deadlock on
\* per-entry locks: while a worker has work left, some worker can step.
C24_NoLockInsideSameMapVisitor ==
    /\ \A w \in Workers :
          \A e \in workers[w].locked :
              /\ e.lock[1] \notin HeldMaps(e.held)
              /\ e.lock[1] = "instanceMap" => "symbolDrivers" \notin HeldMaps(e.held)
              /\ e.lock[1] = "symbolDrivers" => "instanceMap" \notin HeldMaps(e.held)
    /\ ~ConcDone => \E w \in Workers : CanStep(w)

\* C24 witness: a worker that has been through a symbolDrivers visit waits for
\* the instanceMap entry that the other worker is holding.
C24_Witness ==
    \E w, o \in Workers :
        /\ w # o
        /\ CanVisit(w)
        /\ NextVisit(w).k = "ifacePort"
        /\ \E e \in workers[w].locked : e.lock[1] = "symbolDrivers"
        /\ workers[w].held = <<>>
        /\ workers[o].held = <<LockOf(NextVisit(w))>>

\* The modport port that the connection expression of port leads to, if any.
NextPort(port) ==
    IF port # Null /\ ConnectionExpr(port) # NoExpr
       /\ SymbolKind(ConnectionExpr(port).sym) = "ModportPort"
    THEN ConnectionExpr(port).sym
    ELSE Null

ModportPorts == {s \in ValueSymbols : SymbolKind(s) = "ModportPort"}

\* The k-th modport port after port on its chain of connections, or Null.
RECURSIVE PortAfter(_, _)
PortAfter(port, k) == IF k = 0 THEN port ELSE PortAfter(NextPort(port), k - 1)

\* The chain of connections from port runs into a cycle.
LeadsToCycle(port) == PortAfter(port, Cardinality(ModportPorts)) # Null

\* The number of modport ports on the chain of connections from port.
ChainLength(port) ==
    Cardinality({k \in 0..Cardinality(ModportPorts) : PortAfter(port, k) # Null})

\* The longest chain from a port that has recorded drivers.
LongestChain(table) ==
    IF DOMAIN table = {} THEN 0
    ELSE CHOOSE n \in {ChainLength(port) : port \in DOMAIN table} :
            \A port \in DOMAIN table : ChainLength(port) <= n

CycleFree(table) == \A port \in DOMAIN table : ~LeadsToCycle(port)

\* Some modport port of the design leads, through other modport ports, back to
\* itself.
GraphCyclic == \E port \in ModportPorts : LeadsToCycle(port)

\* C25 as stated: propagateModportDrivers terminates whenever the modport
\* connection graph is acyclic, with the passes bounded by the longest chain of
\* connections, and with a cyclic connection graph the loop never exits.
C25_TerminatesIffGraphAcyclic ==
    /\ [](propagating /\ ~GraphCyclic => <>~propagating)
    /\ [][(propagating /\ propagating' /\ ~GraphCyclic) =>
             LongestChain(modportPortDrivers') < LongestChain(modportPortDrivers)]_vars
    /\ [](propagating /\ GraphCyclic => []propagating)

\* C25 amended: propagateModportDrivers terminates whenever the connections of the
\* modport ports that hold drivers are acyclic: every loop pass that finds
\* drivers shortens the longest chain of modport-port connections that still
\* holds drivers, so the passes are bounded by the longest chain; when a port
\* on a cycle of connections holds a driver the loop never exits.
C25_TerminatesIffAcyclic ==
    /\ [](propagating /\ CycleFree(modportPortDrivers) => <>~propagating)
    /\ [][(propagating /\ propagating' /\ CycleFree(modportPortDrivers)) =>
             /\ CycleFree(modportPortDrivers')
             /\ LongestChain(modportPortDrivers') < LongestChain(modportPortDrivers)]_vars
    /\ [](propagating /\ ~CycleFree(modportPortDrivers) => []propagating)

\* C25 witness: propagateModportDrivers has returned after two passes that
\* found drivers: the driver of mq.z went through mp.y to x of u1.
C25_Witness ==
    /\ lastOp.op = "propagateModportDrivers"
    /\ ~propagating
    /\ lastOp.prev.op = "propagatePass"
    /\ \E e \in StoredEntries("x1") : e.driver.prefixExpression.sourceRange = "a13"

\* C25 witness of the cyclic case: the driver recorded against the port a has
\* gone round the cycle and is recorded against a again.
C25_WitnessCyclic ==
    /\ propagating
    /\ lastOp.op = "propagatePass"
    /\ lastOp.prev.op = "propagatePass"
    /\ DOMAIN modportPortDrivers = {"mca"}

\* The span pending when the next selector of the walk is applied: the one a
\* range select left, or the elements of the instance array the walk is at.
Pending(w) ==
    IF w.result.span # NoSpan THEN w.result.span
    ELSE IF NodeKind(Deref(w.result.symbol, Null)[1]) = "InstanceArray"
    THEN Elements(Deref(w.result.symbol, Null)[1])
    ELSE NoSpan

\* The selector the step applies.
Applied == walk.path[walk.done + 1]

InSpan(k, n) == 0 <= k /\ k < n

\* C26: a range selector (first, second) applied to a pending span of n
\* elements yields not-found or exactly the sub-span first..second with
\* 0 <= first <= second < n; a negative bound, a bound >= n or first > second
\* yields not-found; an index selector i yields not-found unless 0 <= i < n.
C26_SelectorsStayInsideSpan ==
    [][(walk.done' = walk.done + 1 /\ Pending(walk) # NoSpan) =>
         LET n == Len(Pending(walk))
             first == Applied.first
             second == Applied.second
             inside == InSpan(first, n) /\ InSpan(second, n) /\ first <= second
         IN  /\ Applied.t = "range" =>
                  /\ \/ walk'.result = NotFound
                     \/ /\ inside
                        /\ walk'.result.span = SubSeq(Pending(walk), first + 1, second + 1)
                  /\ ~inside => walk'.result = NotFound
             /\ (Applied.t = "index" /\ ~InSpan(first, n)) => walk'.result = NotFound]_vars

====
